---- MODULE Spec2Model ----
(***************************************************************************)
(* Student-Portal-Backend: the role/ownership authorization rules, the     *)
(* content verification flag, the resource visibility filter and the       *)
(* group-chat membership state machine, the chat messages with their read  *)
(* marks, the announcements and the notification dispatch, as a state      *)
(* machine over the MongoDB collections (User, Chat, Message,              *)
(* Announcement, Note/Video/PYQ/Syllabus) and the upload directory.        *)
(*                                                                         *)
(* Every action is one HTTP request handled to completion (the express     *)
(* handler with the route's middleware in front of it); `resp` is the      *)
(* response of the last request together with the request's parameters.    *)
(* The actor of a request is the user `protect` loaded from the token.     *)
(* The account's own e-mail verification (the `isVerified` middleware and  *)
(* the OTP flow) is left out: every actor is an account that passed it.    *)
(***************************************************************************)
EXTENDS Integers, FiniteSets, Sequences, Bags, TLC

VARIABLES users, chats, items, nextItem, resp, notif, pend, msgs, anns, disk, comments, io

vars == <<users, chats, items, nextItem, resp, notif, pend, msgs, anns, disk, comments, io>>

\* The content collections with the upload directory and the comments
\* embedded in the video documents.
contentVars == <<items, nextItem, disk, comments>>
\* accessChat requests in flight, the Message and Announcement collections.
sideVars == <<pend, msgs, anns>>

\* ---------------------------------------------------------------- bounds
\* Number of chat documents the Chat collection may hold.
MaxChats == 1
\* The chat ids of the specifications about direct chats and messages.
MaxRooms == 2
\* Number of content documents (notes, videos, PYQs together) ever created.
MaxItems == 1
\* Number of message documents the Message collection may hold.
MaxMsgs == 2
\* Number of announcement documents the Announcement collection may hold.
MaxAnns == 1
\* Number of file names the upload directory may hold.
MaxFiles == 2
\* Number of comments the video documents may hold together.
MaxComments == 1

\* ------------------------------------------------------------ vocabulary
\* undefined / null of the JavaScript side.
NoVal == "undefined"
\* findById(...) === null in the three collections.
NoUser == [none |-> "user"]
NoChat == [none |-> "chat"]
NoMsg == [none |-> "message"]
NoAnn == [none |-> "announcement"]
NoComment == [none |-> "comment"]
\* No accessChat request of the user is between its lookup and its reply.
NoPend == [none |-> "request"]
NoItem == [none |-> "item"]
\* An absent numeric field (year, semester) is 0: like undefined it is
\* falsy in the handlers' `if (x)` tests, and no schema admits it.

\* User _ids (one per e-mail address: User.email is unique).
UserIds == {"s1", "t1", "a1"}

\* UserSchema.role enum.
Roles == {"student", "teacher", "admin"}
\* UserSchema.branch enum.
UserBranchEnum == {"Computer Science", "ECE", "ME", "CE", "EE", "CHE", "BT", "Other"}
\* NoteSchema / VideoSchema / PYQSchema / SyllabusSchema branch enum.
ContentBranchEnum == {"CSE", "ECE", "ME", "CE", "EE", "CHE", "BT", "Other"}
\* year and semester enums (the same in every schema).
YearEnum == {1, 2, 3, 4}
SemesterEnum == {1, 2, 3, 4, 5, 6, 7, 8}

\* Values the community requests are drawn from.
ChatNames == {"g1", "g2"}
ChatBranches == {NoVal, "CSE"}
ReqBools == {NoVal, "true", "false"}
\* A body's `users`: an array of ids, or something that is no array.
ReqUserLists(S) == {[isArray |-> TRUE, ids |-> SetToBag(l)] : l \in SUBSET S}
                     \cup {[isArray |-> FALSE, ids |-> EmptyBag]}

\* protect: the token names a user that still exists (else 401, no state
\* change, not a step of the model).
Protect(actor) == users[actor] # NoUser
RoleOf(u) == users[u].role

\* ------------------------------------------------------------ responses
\* HTTP status of the response.  An ErrorResponse carries its own code;
\* what the error middleware makes of any other error thrown in a handler
\* is ErrorStatus: a mongoose ValidationError is a client error, a
\* TypeError a server error.
ErrorStatus(name) == IF name = "ValidationError" THEN 400 ELSE 500

Ok(s) == s \in {200, 201}

NoResp == [op |-> "none", status |-> 0]

\* ------------------------------------------------------- notifications
\* What notifyUsers did for the last request: the users it was addressed
\* to (targetUsers) and how the call ended.  A request that does not call
\* notifyUsers leaves NoNotif.
NoNotif == [to |-> {}, outcome |-> "none"]

\* The /chat namespace of Socket.io.  Each socket id is a connection (a
\* disconnected one comes back as a fresh connection).  onlineUsers is
\* the Map of the module, socket id -> the userId it authenticated with
\* (NoVal: no entry); userRooms and chatRooms are the `user:<id>` and
\* `chat:<id>` rooms each socket is in; emitted is what the last handler
\* delivered, as [to, event, chat] with chat 0 for events of no chat.
Sockets == {"k1", "k2"}
NoIo == [onlineUsers |-> [k \in Sockets |-> NoVal],
         userRooms |-> [k \in Sockets |-> {}],
         chatRooms |-> [k \in Sockets |-> {}],
         emitted |-> {}]
\* sendNotification delivered / notifyUsers returned { success: false } /
\* an exception was thrown inside the handler's try block.
NotifyOutcomes == {"sent", "failed", "threw"}
\* The request handlers emit through the notification namespace only and
\* leave the /chat namespace (io) as it is.
Quiet == notif' = NoNotif /\ UNCHANGED io
\* Variant: an exception in the notification block fails the request.
AfterNotify_Rethrow(status, outcome) ==
  IF outcome = "threw" THEN ErrorStatus("Error") ELSE status
\* try { await notifyUsers({...}) } catch (error) { console.error(...) }
\* and then the response: the status the handler answers with after the
\* notification block ended with `outcome`.
AfterNotify(status, outcome) == status
\* notifyUsers({ targetUsers: to }) ending with outcome.
Notify(to, outcome) == notif' = [to |-> to, outcome |-> outcome] /\ UNCHANGED io

\* -------------------------------------------------------------- uploads
\* File names of the upload directory.  `disk` holds the names of the
\* files that exist: a document's main file (filePath) or an attachment of a
\* message or an announcement; the solution files of PYQs are left out.
\* 0 stands for "no file".
Paths == 1..MaxFiles
\* The names some document refers to.
ReferencedPaths ==
  {items[i].filePath : i \in {j \in 1..MaxItems : items[j] # NoItem}}
    \cup UNION {msgs[m].attachments : m \in {j \in 1..MaxMsgs : msgs[j] # NoMsg}}
    \cup UNION {anns[a].attachments : a \in {j \in 1..MaxAnns : anns[j] # NoAnn}}
FreePaths == Paths \ (disk \cup ReferencedPaths)
\* multer's filename is a fresh uuid: a name nothing has used.
FreshPath == CHOOSE f \in FreePaths : \A g \in FreePaths : f <= g
\* The upload directory after uploadSingle / uploadMultiple has stored the
\* request's file, which happens before the handler runs.
Stored(hasFile) == IF hasFile THEN disk \cup {FreshPath} ELSE disk
CanStore(hasFile) == hasFile => FreePaths # {}
\* deleteFile(path): unlinkSync when the file exists.
DeleteFile(d, path) == d \ {path}

\* ===================================================================
\* Community: chats
\* ===================================================================

\* isPublic === 'true' || isPublic === true  (the body's value as text)
ParseBool(v) == v = "true"

\* MongooseArray.includes on an ObjectId array.
Includes(bag, u) == BagIn(u, bag)
\* { $addToSet: { users: { $each: list } } }
AddToSet_Push(bag, list) == bag (+) list

AddToSet(bag, list) == bag (+) SetToBag({u \in BagToSet(list) : ~BagIn(u, bag)})
\* { $pull: { users: u } }: every occurrence goes.
Pull(bag, u) == [e \in (DOMAIN bag) \ {u} |-> bag[e]]
\* users.push(u) on a list given as a bag.
Push(bag, u) == bag (+) SetToBag({u})

FreeChatIds == {c \in DOMAIN chats : chats[c] = NoChat}
\* Chat.create hands out a fresh _id.
NewChatId == CHOOSE c \in FreeChatIds : \A d \in FreeChatIds : c <= d

ChatResp(op, actor, c, target, status) ==
  [op |-> op, actor |-> actor, chat |-> c, target |-> target, status |-> status,
   admin |-> IF c \in DOMAIN chats /\ chats[c] # NoChat THEN chats[c].groupAdmin ELSE NoVal]

\* Variant: any member of the chat passes the check.
NotGroupAdminNorAppAdmin_MembersPass(chat, actor) ==
  chat.groupAdmin # actor /\ RoleOf(actor) # "admin" /\ ~Includes(chat.users, actor)

\* The check every group mutation starts with:
\*   chat.groupAdmin.toString() !== req.user._id.toString() && req.user.role !== 'admin'
NotGroupAdminNorAppAdmin(chat, actor) ==
  chat.groupAdmin # actor /\ RoleOf(actor) # "admin"

\* accessChat with no lookup: every request creates.
FindDirect_NoLookup(actor, userId) == {}

\* Chat.findOne({isGroupChat: false, users has actor, users has userId})
FindDirect(actor, userId) ==
  {c \in DOMAIN chats : chats[c] # NoChat /\ ~chats[c].isGroupChat
                         /\ Includes(chats[c].users, actor)
                         /\ Includes(chats[c].users, userId)}

\* chatData of accessChat
NewDirect(actor, userId) ==
  [chatName |-> "sender", isGroupChat |-> FALSE,
   users |-> Push(SetToBag({actor}), userId),
   groupAdmin |-> NoVal, isPublic |-> FALSE, branch |-> NoVal]

\* POST /api/community/chats, handled with nothing in between
AccessChat(actor, userId) ==
  /\ Protect(actor)
  /\ UNCHANGED <<users, contentVars, sideVars>>
  /\ Quiet
  /\ IF userId = NoVal
       THEN /\ resp' = ChatResp("accessChat", actor, 0, userId, 400)
            /\ UNCHANGED chats
     ELSE IF FindDirect(actor, userId) # {}
       THEN /\ \E c \in FindDirect(actor, userId) :
                 resp' = ChatResp("accessChat", actor, c, userId, 200)
            /\ UNCHANGED chats
     ELSE /\ FreeChatIds # {}
          /\ chats' = [chats EXCEPT ![NewChatId] = NewDirect(actor, userId)]
          /\ resp' = ChatResp("accessChat", actor, NewChatId, userId, 200)

\* POST /api/community/chats up to the answer of `await Chat.findOne`:
\* the request waits in `pend` with what the lookup found (0: nothing),
\* and other requests are handled before it goes on.
AccessChatFind(actor, userId) ==
  /\ Protect(actor)
  /\ pend[actor] = NoPend
  /\ UNCHANGED <<users, chats, contentVars, msgs, anns>>
  /\ Quiet
  /\ IF userId = NoVal
       THEN /\ resp' = ChatResp("accessChat", actor, 0, userId, 400)
            /\ UNCHANGED pend
     ELSE /\ \E c \in (IF FindDirect(actor, userId) = {} THEN {0}
                         ELSE FindDirect(actor, userId)) :
               pend' = [pend EXCEPT ![actor] = [userId |-> userId, found |-> c]]
          /\ resp' = ChatResp("accessChatFind", actor, 0, userId, 0)

\* The rest of the handler: answer with the chat found, or Chat.create.
AccessChatCreate(actor) ==
  /\ pend[actor] # NoPend
  /\ UNCHANGED <<users, contentVars, msgs, anns>>
  /\ Quiet
  /\ pend' = [pend EXCEPT ![actor] = NoPend]
  /\ IF pend[actor].found # 0
       THEN /\ resp' = ChatResp("accessChat", actor, pend[actor].found,
                                pend[actor].userId, 200)
            /\ UNCHANGED chats
     ELSE /\ FreeChatIds # {}
          /\ chats' = [chats EXCEPT ![NewChatId] = NewDirect(actor, pend[actor].userId)]
          /\ resp' = ChatResp("accessChat", actor, NewChatId, pend[actor].userId, 200)

\* POST /api/community/chats/group  { chatName, users, isPublic, branch }
\* bodyUsers: the users value of the body, [isArray, ids].
CreateGroupChat(actor, chatName, bodyUsers, isPublic, branch) ==
  /\ Protect(actor)
  /\ UNCHANGED <<users, contentVars, sideVars>>
  /\ Quiet
  /\ IF chatName = NoVal
       THEN /\ resp' = ChatResp("createGroupChat", actor, 0, NoVal, 400)
            /\ UNCHANGED chats
     ELSE /\ FreeChatIds # {}
          /\ chats' = [chats EXCEPT ![NewChatId] =
                         [chatName |-> chatName, isGroupChat |-> TRUE,
                          users |-> Push(IF ~bodyUsers.isArray THEN EmptyBag
                                         ELSE bodyUsers.ids, actor),
                          groupAdmin |-> actor, isPublic |-> ParseBool(isPublic),
                          branch |-> branch]]
          /\ resp' = ChatResp("createGroupChat", actor, NewChatId, NoVal, 201)

\* PUT /api/community/chats/group/:id  { chatName, isPublic, branch }
UpdateGroupChat(actor, c, chatName, isPublic, branch) ==
  /\ Protect(actor)
  /\ UNCHANGED <<users, contentVars, sideVars>>
  /\ Quiet
  /\ LET chat == chats[c] IN
     IF chat = NoChat
       THEN /\ resp' = ChatResp("updateGroupChat", actor, c, NoVal, 404)
            /\ UNCHANGED chats
     ELSE IF chat.groupAdmin = NoVal
       THEN /\ resp' = ChatResp("updateGroupChat", actor, c, NoVal, ErrorStatus("TypeError"))
            /\ UNCHANGED chats
     ELSE IF NotGroupAdminNorAppAdmin(chat, actor)
       THEN /\ resp' = ChatResp("updateGroupChat", actor, c, NoVal, 403)
            /\ UNCHANGED chats
     ELSE /\ chats' = [chats EXCEPT
                         ![c].chatName = IF chatName # NoVal THEN chatName ELSE @,
                         ![c].isPublic = IF isPublic # NoVal THEN ParseBool(isPublic) ELSE @,
                         ![c].branch = IF branch # NoVal THEN branch ELSE @]
          /\ resp' = ChatResp("updateGroupChat", actor, c, NoVal, 200)

\* PUT /api/community/chats/group/:id/add  { users }
\* The response of addToGroup with the request's users list.
AddResp(actor, c, bodyUsers, status) ==
  [op |-> "addToGroup", actor |-> actor, chat |-> c, target |-> NoVal, status |-> status,
   admin |-> IF c \in DOMAIN chats /\ chats[c] # NoChat THEN chats[c].groupAdmin ELSE NoVal,
   users |-> bodyUsers]

AddToGroup(actor, c, bodyUsers) ==
  /\ Protect(actor)
  /\ UNCHANGED <<users, contentVars, sideVars>>
  /\ Quiet
  /\ LET chat == chats[c] IN
     IF ~bodyUsers.isArray
       THEN /\ resp' = AddResp(actor, c, bodyUsers, 400)
            /\ UNCHANGED chats
     ELSE IF chat = NoChat
       THEN /\ resp' = AddResp(actor, c, bodyUsers, 404)
            /\ UNCHANGED chats
     ELSE IF chat.groupAdmin = NoVal
       THEN /\ resp' = AddResp(actor, c, bodyUsers, ErrorStatus("TypeError"))
            /\ UNCHANGED chats
     ELSE IF NotGroupAdminNorAppAdmin(chat, actor)
       THEN /\ resp' = AddResp(actor, c, bodyUsers, 403)
            /\ UNCHANGED chats
     ELSE /\ chats' = [chats EXCEPT ![c].users = AddToSet(@, bodyUsers.ids)]
          /\ resp' = AddResp(actor, c, bodyUsers, 200)

\* Variant: the guard is missing.
RemovesGroupAdmin_NoGuard(chat, actor, userId) == FALSE

\* The second guard of removeFromGroup:
\*   req.params.userId === chat.groupAdmin.toString() && !isAppAdmin
RemovesGroupAdmin(chat, actor, userId) ==
  userId = chat.groupAdmin /\ RoleOf(actor) # "admin"

\* PUT /api/community/chats/group/:id/remove/:userId
RemoveFromGroup(actor, c, userId) ==
  /\ Protect(actor)
  /\ UNCHANGED <<users, contentVars, sideVars>>
  /\ Quiet
  /\ LET chat == chats[c]
         isSelfRemoval == userId = actor
         isGroupAdmin == chat.groupAdmin = actor
         isAppAdmin == RoleOf(actor) = "admin"
     IN
     IF chat = NoChat
       THEN /\ resp' = ChatResp("removeFromGroup", actor, c, userId, 404)
            /\ UNCHANGED chats
     ELSE IF chat.groupAdmin = NoVal
       THEN /\ resp' = ChatResp("removeFromGroup", actor, c, userId, ErrorStatus("TypeError"))
            /\ UNCHANGED chats
     ELSE IF ~isSelfRemoval /\ ~isGroupAdmin /\ ~isAppAdmin
       THEN /\ resp' = ChatResp("removeFromGroup", actor, c, userId, 403)
            /\ UNCHANGED chats
     ELSE IF RemovesGroupAdmin(chat, actor, userId)
       THEN /\ resp' = ChatResp("removeFromGroup", actor, c, userId, 403)
            /\ UNCHANGED chats
     ELSE /\ chats' = [chats EXCEPT ![c].users = Pull(@, userId)]
          /\ resp' = ChatResp("removeFromGroup", actor, c, userId, 200)

AlreadyMember_NoTest(chat, actor) == FALSE

\* chat.users.includes(req.user._id)
AlreadyMember(chat, actor) == Includes(chat.users, actor)

\* PUT /api/community/chats/join/:id
JoinGroup(actor, c, outcome) ==
  /\ Protect(actor)
  /\ UNCHANGED <<users, contentVars, sideVars>>
  /\ LET chat == chats[c] IN
     IF chat = NoChat
       THEN /\ resp' = ChatResp("joinGroup", actor, c, actor, 404)
            /\ UNCHANGED chats /\ Quiet
     ELSE IF ~chat.isPublic \/ ~chat.isGroupChat
       THEN /\ resp' = ChatResp("joinGroup", actor, c, actor, 400)
            /\ UNCHANGED chats /\ Quiet
     ELSE IF AlreadyMember(chat, actor)
       THEN /\ resp' = ChatResp("joinGroup", actor, c, actor, 400)
            /\ UNCHANGED chats /\ Quiet
     ELSE /\ chats' = [chats EXCEPT ![c].users = AddToSet(@, SetToBag({actor}))]
          /\ Notify({chat.groupAdmin}, outcome)
          /\ resp' = ChatResp("joinGroup", actor, c, actor, AfterNotify(200, outcome))

\* Variant: the guard is missing.
LeaverIsGroupAdmin_NoGuard(chat, actor) == FALSE

\* The guard of leaveGroup that keeps the group admin in:
\*   chat.groupAdmin.toString() === req.user._id.toString()
LeaverIsGroupAdmin(chat, actor) == chat.groupAdmin = actor

\* PUT /api/community/chats/leave/:id
LeaveGroup(actor, c) ==
  /\ Protect(actor)
  /\ UNCHANGED <<users, contentVars, sideVars>>
  /\ Quiet
  /\ LET chat == chats[c] IN
     IF chat = NoChat
       THEN /\ resp' = ChatResp("leaveGroup", actor, c, actor, 404)
            /\ UNCHANGED chats
     ELSE IF ~chat.isGroupChat
       THEN /\ resp' = ChatResp("leaveGroup", actor, c, actor, 400)
            /\ UNCHANGED chats
     ELSE IF ~Includes(chat.users, actor)
       THEN /\ resp' = ChatResp("leaveGroup", actor, c, actor, 400)
            /\ UNCHANGED chats
     ELSE IF LeaverIsGroupAdmin(chat, actor)
       THEN /\ resp' = ChatResp("leaveGroup", actor, c, actor, 400)
            /\ UNCHANGED chats
     ELSE /\ chats' = [chats EXCEPT ![c].users = Pull(@, actor)]
          /\ resp' = ChatResp("leaveGroup", actor, c, actor, 200)

\* Variant: the membership test is missing.
TargetIsMember_NoTest(chat, userId) == TRUE

\* The membership test of transferGroupOwnership:
\*   chat.users.includes(targetUser._id)
TargetIsMember(chat, userId) == Includes(chat.users, userId)

\* PUT /api/community/chats/group/:id/transfer/:userId
TransferGroupOwnership(actor, c, userId, outcome) ==
  /\ Protect(actor)
  /\ UNCHANGED <<users, contentVars, sideVars>>
  /\ LET chat == chats[c] IN
     IF chat = NoChat
       THEN /\ resp' = ChatResp("transferGroupOwnership", actor, c, userId, 404)
            /\ UNCHANGED chats /\ Quiet
     ELSE IF chat.groupAdmin = NoVal
       THEN /\ resp' = ChatResp("transferGroupOwnership", actor, c, userId,
                             ErrorStatus("TypeError"))
            /\ UNCHANGED chats /\ Quiet
     ELSE IF NotGroupAdminNorAppAdmin(chat, actor)
       THEN /\ resp' = ChatResp("transferGroupOwnership", actor, c, userId, 403)
            /\ UNCHANGED chats /\ Quiet
     ELSE IF users[userId] = NoUser
       THEN /\ resp' = ChatResp("transferGroupOwnership", actor, c, userId, 404)
            /\ UNCHANGED chats /\ Quiet
     ELSE IF ~TargetIsMember(chat, userId)
       THEN /\ resp' = ChatResp("transferGroupOwnership", actor, c, userId, 400)
            /\ UNCHANGED chats /\ Quiet
     ELSE /\ chats' = [chats EXCEPT ![c].groupAdmin = userId]
          /\ Notify({userId}, outcome)
          /\ resp' = ChatResp("transferGroupOwnership", actor, c, userId,
                             AfterNotify(200, outcome))

\* ===================================================================
\* Content: notes, videos, previous-year questions (PYQ)
\* ===================================================================
\* A content document is [kind, branch, year, semester, uploadedBy,
\* isVerified, filePath]; its _id is its index in `items`, handed out by
\* nextItem and never reused.  VideoSchema has no filePath path, so the
\* filePath a handler gives to a video is dropped by the schema and a
\* video's filePath is always absent (0).  A video also carries likes and
\* usersLiked, a note ratings and averageRating (a quotient kept as
\* [num, den], since sum / length need not be an integer).  The counters
\* (views, downloads) are separate fields of the document that the
\* handlers below write with save(), which stores modified paths only;
\* they are not part of this record.  The comments of the videos are in
\* `comments`.

\* parseInt(text) and the schema's cast of a Number path; 0 stands for
\* NaN / absent.
ParseInt(v) ==
  CASE v = "1" -> 1 [] v = "2" -> 2 [] v = "3" -> 3 [] v = "4" -> 4
    [] v = "5" -> 5 [] v = "6" -> 6 [] v = "7" -> 7 [] v = "8" -> 8
    [] OTHER -> 0

\* Variant: everybody is let through.
Authorize_AllowAll(roles, actor) == TRUE

\* authorize(...roles): 403 unless the actor's role is one of roles.
Authorize(roles, actor) == RoleOf(actor) \in roles

\* Variant: the flag is left to the schema default, which reads
\* this.uploadedBy.role on an ObjectId and so is always false.
InitialVerified_SchemaDefault(role) == FALSE

\* isVerified: req.user.role === 'student' ? false : true
InitialVerified(role) == role # "student"

\* branch / year / semester validators of the content schemas (required,
\* enum).
ValidScope(branch, year, semester) ==
  branch \in ContentBranchEnum /\ year \in YearEnum /\ semester \in SemesterEnum

\* Model.findById(id) in the collection of `kind`.
FindById(kind, id) ==
  IF id \in 1..MaxItems /\ items[id] # NoItem /\ items[id].kind = kind
    THEN items[id] ELSE NoItem

ContentResp(op, actor, id, status) ==
  [op |-> op, actor |-> actor, item |-> id, status |-> status]

\* A response that leaves the content collections as they are.
Reply(op, actor, id, status) ==
  /\ resp' = ContentResp(op, actor, id, status)
  /\ UNCHANGED <<items, nextItem>>

\* The schema defaults of the paths no create handler sets: likes 0 and
\* usersLiked [] for a video, ratings [] and averageRating 0 for a note.
SchemaDefaults(kind) ==
  CASE kind = "video" -> [likes |-> 0, usersLiked |-> <<>>]
    [] kind = "note" -> [ratings |-> <<>>, averageRating |-> [num |-> 0, den |-> 1]]
    [] OTHER -> <<>>

\* Model.create({..., uploadedBy: req.user.id, isVerified: ...}) and 201.
Insert(op, kind, actor, body, path) ==
  /\ nextItem <= MaxItems
  /\ items' = [items EXCEPT ![nextItem] =
                 [kind |-> kind, branch |-> body.branch,
                  year |-> ParseInt(body.year), semester |-> ParseInt(body.semester),
                  uploadedBy |-> actor,
                  isVerified |-> InitialVerified(RoleOf(actor)),
                  filePath |-> IF kind = "video" THEN 0 ELSE path]
                 @@ SchemaDefaults(kind)]
  /\ nextItem' = nextItem + 1
  /\ resp' = ContentResp(op, actor, nextItem, 201)

\* Variant: the whole body is handed to findByIdAndUpdate.
UpdatedDoc_WholeBody(doc, body, parse) ==
  [doc EXCEPT !.branch = IF body.branch # NoVal THEN body.branch ELSE @,
              !.isVerified = IF body.isVerified # NoVal THEN ParseBool(body.isVerified) ELSE @]

\* The document after findByIdAndUpdate(id, updateFields): updateFields
\* takes branch, year and semester from the body when they are truthy
\* (besides title, description, subject and the file fields), and nothing
\* else.  parse: year and semester go through parseInt first (updatePYQ).
UpdatedDoc(doc, body, parse) ==
  [doc EXCEPT !.branch = IF body.branch # NoVal THEN body.branch ELSE @,
              !.year = IF body.year # NoVal /\ (~parse \/ ParseInt(body.year) # 0)
                         THEN ParseInt(body.year) ELSE @,
              !.semester = IF body.semester # NoVal /\ (~parse \/ ParseInt(body.semester) # 0)
                             THEN ParseInt(body.semester) ELSE @]

\* The handler's ownership test:
\*   doc.uploadedBy.toString() !== req.user.id && req.user.role !== 'admin'
NotOwnerNorAdmin_NoCheck(doc, actor) == FALSE

NotOwnerNorAdmin(doc, actor) == doc.uploadedBy # actor /\ RoleOf(actor) # "admin"

\* updateNote / updateVideo / updatePYQ / updateSyllabus after the upload
\* middleware.  With a new file the handler deletes the old one and puts
\* the new filePath into updateFields before findByIdAndUpdate runs the
\* validators; a video document has no filePath, so nothing is deleted for
\* a video.
Update(op, kind, actor, id, body, parse, hasFile) ==
  LET doc == FindById(kind, id) IN
  IF doc = NoItem THEN Reply(op, actor, id, 404) /\ disk' = Stored(hasFile)
  ELSE IF NotOwnerNorAdmin(doc, actor)
    THEN Reply(op, actor, id, 403) /\ disk' = Stored(hasFile)
  ELSE LET replaces == hasFile /\ kind # "video"
           new == [UpdatedDoc(doc, body, parse) EXCEPT
                     !.filePath = IF replaces THEN FreshPath ELSE @]
       IN
       /\ disk' = IF replaces THEN DeleteFile(Stored(hasFile), doc.filePath)
                              ELSE Stored(hasFile)
       /\ IF ~ValidScope(new.branch, new.year, new.semester)
            THEN Reply(op, actor, id, ErrorStatus("ValidationError"))
          ELSE /\ items' = [items EXCEPT ![id] = new]
               /\ resp' = ContentResp(op, actor, id, 200)
               /\ UNCHANGED nextItem

\* The comments left when the video `id` is gone (they are subdocuments).
WithoutVideo(id) ==
  [k \in 1..MaxComments |->
     IF comments[k] # NoComment /\ comments[k].video = id THEN NoComment ELSE comments[k]]

\* deleteNote / deleteVideo / deletePYQ / deleteSyllabus:
\* deleteFile(doc.filePath), then doc.deleteOne().
Delete(op, kind, actor, id) ==
  LET doc == FindById(kind, id) IN
  IF doc = NoItem THEN Reply(op, actor, id, 404) /\ UNCHANGED <<disk, comments>>
  ELSE IF NotOwnerNorAdmin(doc, actor)
    THEN Reply(op, actor, id, 403) /\ UNCHANGED <<disk, comments>>
  ELSE /\ items' = [items EXCEPT ![id] = NoItem]
       /\ disk' = DeleteFile(disk, doc.filePath)
       /\ comments' = IF kind = "video" THEN WithoutVideo(id) ELSE comments
       /\ resp' = ContentResp(op, actor, id, 200)
       /\ UNCHANGED nextItem

\* doc.isVerified = true; await doc.save()
Verify(op, kind, actor, id) ==
  IF FindById(kind, id) = NoItem THEN Reply(op, actor, id, 404)
  ELSE /\ items' = [items EXCEPT ![id].isVerified = TRUE]
       /\ resp' = ContentResp(op, actor, id, 200)
       /\ UNCHANGED nextItem

\* A handler that loads the document, changes engagement paths only
\* (views, downloads, ratings, likes, comments, solution file) and saves.
Engage(op, kind, actor, id) ==
  IF FindById(kind, id) = NoItem THEN Reply(op, actor, id, 404)
  ELSE Reply(op, actor, id, 200)

\* ---- notes
\* POST /api/notes
CreateNote(actor, body, hasFile) ==
  /\ Protect(actor)
  /\ UNCHANGED <<users, chats, sideVars>>
  /\ CanStore(hasFile)
  /\ disk' = Stored(hasFile)
  /\ UNCHANGED comments
  /\ Quiet
  /\ IF ~hasFile THEN Reply("createNote", actor, 0, 400)
     ELSE IF ~ValidScope(body.branch, ParseInt(body.year), ParseInt(body.semester))
       THEN Reply("createNote", actor, 0, ErrorStatus("ValidationError"))
     ELSE Insert("createNote", "note", actor, body, FreshPath)

\* PUT /api/notes/:id
UpdateNote(actor, id, body, hasFile) ==
  /\ Protect(actor)
  /\ UNCHANGED <<users, chats, sideVars>>
  /\ CanStore(hasFile)
  /\ UNCHANGED comments
  /\ Quiet
  /\ Update("updateNote", "note", actor, id, body, FALSE, hasFile)

\* DELETE /api/notes/:id
DeleteNote(actor, id) ==
  /\ Protect(actor)
  /\ UNCHANGED <<users, chats, sideVars>>
  /\ Quiet
  /\ Delete("deleteNote", "note", actor, id)

\* PUT /api/notes/:id/verify   authorize('admin', 'teacher')
VerifyNote(actor, id) ==
  /\ Protect(actor)
  /\ UNCHANGED <<users, chats, sideVars>>
  /\ UNCHANGED <<disk, comments>>
  /\ Quiet
  /\ IF ~Authorize({"admin", "teacher"}, actor) THEN Reply("verifyNote", actor, id, 403)
     ELSE Verify("verifyNote", "note", actor, id)

\* GET /api/notes/:id   (views += 1)
GetNote(actor, id) ==
  /\ Protect(actor)
  /\ UNCHANGED <<users, chats, sideVars>>
  /\ UNCHANGED <<disk, comments>>
  /\ Quiet
  /\ Engage("getNote", "note", actor, id)

\* note.ratings.find(r => r.user.toString() === req.user.id): the index
\* of the first entry of the user, 0 when there is none.
AlreadyRated_Never(ratings, u) == 0
AlreadyRated(ratings, u) ==
  IF \E i \in DOMAIN ratings : ratings[i].user = u
  THEN CHOOSE i \in DOMAIN ratings :
         /\ ratings[i].user = u
         /\ \A j \in DOMAIN ratings : ratings[j].user = u => i <= j
  ELSE 0

\* ratings.reduce((acc, item) => acc + item.rating, 0)
RECURSIVE TotalRating(_)
TotalRating(ratings) ==
  IF ratings = <<>> THEN 0
  ELSE ratings[Len(ratings)].rating + TotalRating(SubSeq(ratings, 1, Len(ratings) - 1))

\* NoteSchema.pre('save'): sum / length, or 0 for an empty list.
AverageOf(ratings) ==
  IF Len(ratings) > 0 THEN [num |-> TotalRating(ratings), den |-> Len(ratings)]
  ELSE [num |-> 0, den |-> 1]

\* alreadyRated.rating = rating, or note.ratings.push({ rating, user })
Rated(ratings, u, rating) ==
  IF AlreadyRated(ratings, u) # 0
  THEN [ratings EXCEPT ![AlreadyRated(ratings, u)].rating = rating]
  ELSE Append(ratings, [user |-> u, rating |-> rating])

\* !rating || rating < 1 || rating > 5; 0 is an absent rating.
ValidRating(rating) == rating # 0 /\ rating >= 1 /\ rating <= 5

\* POST /api/notes/:id/ratings  { rating }
AddRating(actor, id, rating) ==
  /\ Protect(actor)
  /\ UNCHANGED <<users, chats, sideVars>>
  /\ UNCHANGED <<disk, comments>>
  /\ Quiet
  /\ IF ~ValidRating(rating) THEN Reply("addRating", actor, id, 400)
     ELSE IF FindById("note", id) = NoItem THEN Reply("addRating", actor, id, 404)
     ELSE /\ items' = [items EXCEPT ![id].ratings = Rated(@, actor, rating),
                                    ![id].averageRating =
                                       AverageOf(Rated(items[id].ratings, actor, rating))]
          /\ resp' = ContentResp("addRating", actor, id, 200)
          /\ UNCHANGED nextItem

\* GET /api/notes/:id/download   (downloads += 1)
DownloadNote(actor, id) ==
  /\ Protect(actor)
  /\ UNCHANGED <<users, chats, sideVars>>
  /\ UNCHANGED <<disk, comments>>
  /\ Quiet
  /\ Engage("downloadNote", "note", actor, id)

\* PUT /api/notes/:id/views   (views += 1)
IncrementNoteViews(actor, id) ==
  /\ Protect(actor)
  /\ UNCHANGED <<users, chats, sideVars>>
  /\ UNCHANGED <<disk, comments>>
  /\ Quiet
  /\ Engage("incrementNoteViews", "note", actor, id)

\* ---- videos
\* POST /api/videos   (source: a youtubeUrl, an uploaded file, or neither)
VideoSources == {"none", "youtube", "file"}

CreateVideo(actor, body, source) ==
  /\ Protect(actor)
  /\ UNCHANGED <<users, chats, sideVars>>
  /\ CanStore(source = "file")
  /\ disk' = Stored(source = "file")
  /\ UNCHANGED comments
  /\ Quiet
  /\ IF source = "none" THEN Reply("createVideo", actor, 0, 400)
     ELSE IF ~ValidScope(body.branch, ParseInt(body.year), ParseInt(body.semester))
       THEN Reply("createVideo", actor, 0, ErrorStatus("ValidationError"))
     ELSE Insert("createVideo", "video", actor, body, 0)

\* PUT /api/videos/:id
UpdateVideo(actor, id, body, hasFile) ==
  /\ Protect(actor)
  /\ UNCHANGED <<users, chats, sideVars>>
  /\ CanStore(hasFile)
  /\ UNCHANGED comments
  /\ Quiet
  /\ Update("updateVideo", "video", actor, id, body, FALSE, hasFile)

\* DELETE /api/videos/:id
DeleteVideo(actor, id) ==
  /\ Protect(actor)
  /\ UNCHANGED <<users, chats, sideVars>>
  /\ Quiet
  /\ Delete("deleteVideo", "video", actor, id)

\* PUT /api/videos/:id/verify   authorize('admin', 'teacher')
VerifyVideo(actor, id) ==
  /\ Protect(actor)
  /\ UNCHANGED <<users, chats, sideVars>>
  /\ UNCHANGED <<disk, comments>>
  /\ Quiet
  /\ IF ~Authorize({"admin", "teacher"}, actor) THEN Reply("verifyVideo", actor, id, 403)
     ELSE Verify("verifyVideo", "video", actor, id)

\* GET /api/videos/:id   (views += 1)
GetVideo(actor, id) ==
  /\ Protect(actor)
  /\ UNCHANGED <<users, chats, sideVars>>
  /\ UNCHANGED <<disk, comments>>
  /\ Quiet
  /\ Engage("getVideo", "video", actor, id)

\* video.usersLiked.includes(req.user.id)
AlreadyLiked_Never(video, u) == FALSE
AlreadyLiked(video, u) == \E i \in DOMAIN video.usersLiked : video.usersLiked[i] = u

\* usersLiked.filter(id => id.toString() !== req.user.id)
Unliked(usersLiked, u) == SelectSeq(usersLiked, LAMBDA v : v # u)

\* Math.max(0, video.likes - 1)
FloorZero(n) == IF n < 0 THEN 0 ELSE n

\* PUT /api/videos/:id/like   (toggles the actor in usersLiked)
LikeVideo(actor, id) ==
  /\ Protect(actor)
  /\ UNCHANGED <<users, chats, sideVars>>
  /\ UNCHANGED <<disk, comments>>
  /\ Quiet
  /\ IF FindById("video", id) = NoItem THEN Reply("likeVideo", actor, id, 404)
     ELSE /\ items' = [items EXCEPT ![id] =
                         IF AlreadyLiked(@, actor)
                         THEN [@ EXCEPT !.likes = FloorZero(@ - 1),
                                        !.usersLiked = Unliked(@, actor)]
                         ELSE [@ EXCEPT !.likes = @ + 1,
                                        !.usersLiked = Append(@, actor)]]
          /\ resp' = ContentResp("likeVideo", actor, id, 200)
          /\ UNCHANGED nextItem

\* POST /api/videos/:id/comments  { text }
FreeComments == {k \in 1..MaxComments : comments[k] = NoComment}

AddComment(actor, id, hasText) ==
  /\ Protect(actor)
  /\ UNCHANGED <<users, chats, sideVars>>
  /\ UNCHANGED disk
  /\ Quiet
  /\ IF ~hasText THEN Reply("addComment", actor, id, 400) /\ UNCHANGED comments
     ELSE IF FindById("video", id) = NoItem
       THEN Reply("addComment", actor, id, 404) /\ UNCHANGED comments
     ELSE /\ FreeComments # {}
          /\ LET k == CHOOSE x \in FreeComments : \A y \in FreeComments : x <= y IN
             comments' = [comments EXCEPT ![k] = [video |-> id, user |-> actor]]
          /\ Reply("addComment", actor, id, 200)

\* DELETE /api/videos/:id/comments/:commentId
DeleteComment(actor, id, commentId) ==
  /\ Protect(actor)
  /\ UNCHANGED <<users, chats, sideVars>>
  /\ UNCHANGED <<items, nextItem, disk>>
  /\ Quiet
  /\ LET Answer(status) ==
           resp' = [op |-> "deleteComment", actor |-> actor, item |-> id,
                    comment |-> commentId, status |-> status]
     IN
     IF FindById("video", id) = NoItem THEN Answer(404) /\ UNCHANGED comments
     ELSE IF comments[commentId] = NoComment \/ comments[commentId].video # id
       THEN Answer(404) /\ UNCHANGED comments
     ELSE IF comments[commentId].user # actor /\ RoleOf(actor) # "admin"
       THEN Answer(403) /\ UNCHANGED comments
     ELSE /\ comments' = [comments EXCEPT ![commentId] = NoComment]
          /\ Answer(200)

\* ---- previous-year questions
\* POST /api/pyq
CreatePYQ(actor, body, hasFile) ==
  /\ Protect(actor)
  /\ UNCHANGED <<users, chats, sideVars>>
  /\ CanStore(hasFile)
  /\ disk' = Stored(hasFile)
  /\ UNCHANGED comments
  /\ Quiet
  /\ IF ~hasFile THEN Reply("createPYQ", actor, 0, 400)
     ELSE IF ~ValidScope(body.branch, ParseInt(body.year), ParseInt(body.semester))
       THEN Reply("createPYQ", actor, 0, ErrorStatus("ValidationError"))
     ELSE Insert("createPYQ", "pyq", actor, body, FreshPath)

\* PUT /api/pyq/:id
UpdatePYQ(actor, id, body, hasFile) ==
  /\ Protect(actor)
  /\ UNCHANGED <<users, chats, sideVars>>
  /\ CanStore(hasFile)
  /\ UNCHANGED comments
  /\ Quiet
  /\ Update("updatePYQ", "pyq", actor, id, body, TRUE, hasFile)

\* DELETE /api/pyq/:id
DeletePYQ(actor, id) ==
  /\ Protect(actor)
  /\ UNCHANGED <<users, chats, sideVars>>
  /\ Quiet
  /\ Delete("deletePYQ", "pyq", actor, id)

\* PUT /api/pyq/:id/verify   authorize('admin', 'teacher')
VerifyPYQ(actor, id) ==
  /\ Protect(actor)
  /\ UNCHANGED <<users, chats, sideVars>>
  /\ UNCHANGED <<disk, comments>>
  /\ Quiet
  /\ IF ~Authorize({"admin", "teacher"}, actor) THEN Reply("verifyPYQ", actor, id, 403)
     ELSE Verify("verifyPYQ", "pyq", actor, id)

\* GET /api/pyq/:id   (views += 1)
GetPYQ(actor, id) ==
  /\ Protect(actor)
  /\ UNCHANGED <<users, chats, sideVars>>
  /\ UNCHANGED <<disk, comments>>
  /\ Quiet
  /\ Engage("getPYQ", "pyq", actor, id)

\* GET /api/pyq/:id/download   (downloads += 1)
DownloadPYQ(actor, id) ==
  /\ Protect(actor)
  /\ UNCHANGED <<users, chats, sideVars>>
  /\ UNCHANGED <<disk, comments>>
  /\ Quiet
  /\ Engage("downloadPYQ", "pyq", actor, id)

\* PUT /api/pyq/:id/solution   authorize('admin', 'teacher')
AddSolution(actor, id, hasFile) ==
  /\ Protect(actor)
  /\ UNCHANGED <<users, chats, sideVars>>
  /\ UNCHANGED <<disk, comments>>
  /\ Quiet
  /\ IF ~Authorize({"admin", "teacher"}, actor) THEN Reply("addSolution", actor, id, 403)
     ELSE IF FindById("pyq", id) = NoItem THEN Reply("addSolution", actor, id, 404)
     ELSE IF ~hasFile THEN Reply("addSolution", actor, id, 400)
     ELSE Reply("addSolution", actor, id, 200)

\* ---- syllabus   (router: protect, then authorize('admin', 'teacher') in
\* front of the upload middleware on POST, PUT and DELETE)

\* POST /api/syllabus
CreateSyllabus(actor, body, hasFile) ==
  /\ Protect(actor)
  /\ UNCHANGED <<users, chats, sideVars>>
  /\ UNCHANGED comments
  /\ Quiet
  /\ IF ~Authorize({"admin", "teacher"}, actor)
       THEN Reply("createSyllabus", actor, 0, 403) /\ UNCHANGED disk
     ELSE /\ CanStore(hasFile)
          /\ disk' = Stored(hasFile)
          /\ IF ~hasFile THEN Reply("createSyllabus", actor, 0, 400)
             ELSE IF ~ValidScope(body.branch, ParseInt(body.year), ParseInt(body.semester))
               THEN Reply("createSyllabus", actor, 0, ErrorStatus("ValidationError"))
             ELSE /\ nextItem <= MaxItems
                  /\ items' = [items EXCEPT ![nextItem] =
                                 [kind |-> "syllabus", branch |-> body.branch,
                                  year |-> ParseInt(body.year),
                                  semester |-> ParseInt(body.semester),
                                  uploadedBy |-> actor, filePath |-> FreshPath]]
                  /\ nextItem' = nextItem + 1
                  /\ resp' = ContentResp("createSyllabus", actor, nextItem, 201)

\* PUT /api/syllabus/:id
UpdateSyllabus(actor, id, body, hasFile) ==
  /\ Protect(actor)
  /\ UNCHANGED <<users, chats, sideVars>>
  /\ UNCHANGED comments
  /\ Quiet
  /\ IF ~Authorize({"admin", "teacher"}, actor)
       THEN Reply("updateSyllabus", actor, id, 403) /\ UNCHANGED disk
     ELSE /\ CanStore(hasFile)
          /\ Update("updateSyllabus", "syllabus", actor, id, body, FALSE, hasFile)

\* DELETE /api/syllabus/:id
DeleteSyllabus(actor, id) ==
  /\ Protect(actor)
  /\ UNCHANGED <<users, chats, sideVars>>
  /\ Quiet
  /\ IF ~Authorize({"admin", "teacher"}, actor)
       THEN Reply("deleteSyllabus", actor, id, 403) /\ UNCHANGED <<disk, comments>>
     ELSE Delete("deleteSyllabus", "syllabus", actor, id)

\* ---- admin
\* PUT /api/admin/verify-content  { contentType, contentId }
\* behind router.use(authorize('admin')).
VerifyContent(actor, contentType, contentId, outcome) ==
  /\ Protect(actor)
  /\ UNCHANGED <<users, chats, sideVars>>
  /\ UNCHANGED <<disk, comments>>
  /\ IF ~Authorize({"admin"}, actor)
       THEN Reply("verifyContent", actor, contentId, 403) /\ Quiet
     ELSE IF contentType = NoVal \/ contentId = 0
       THEN Reply("verifyContent", actor, contentId, 400) /\ Quiet
     ELSE IF contentType \notin {"note", "video", "pyq"}
       THEN Reply("verifyContent", actor, contentId, 400) /\ Quiet
     ELSE IF FindById(contentType, contentId) = NoItem
       THEN Reply("verifyContent", actor, contentId, 404) /\ Quiet
     ELSE /\ items' = [items EXCEPT ![contentId].isVerified = TRUE]
          /\ UNCHANGED nextItem
          /\ Notify({items[contentId].uploadedBy}, outcome)
          /\ resp' = ContentResp("verifyContent", actor, contentId,
                                 AfterNotify(200, outcome))

\* ===================================================================
\* Community: messages
\* ===================================================================
\* A message is [chat, sender, readBy, isDeleted, attachments, content]; its
\* _id is its index in `msgs`.  Messages are never removed (deleteMessage
\* is a soft delete), so the ids are in creation order.  A request names
\* an absent chat id by 0.

\* chat.users.includes(req.user._id)
IsParticipant_Anyone(chat, u) == TRUE
IsParticipant(chat, u) == Includes(chat.users, u)

MsgResp(op, actor, c, m, status) ==
  [op |-> op, actor |-> actor, chat |-> c, msg |-> m, status |-> status]

MsgReply(op, actor, c, m, status) ==
  /\ resp' = MsgResp(op, actor, c, m, status)
  /\ UNCHANGED msgs

FindChat(c) == IF c \in DOMAIN chats THEN chats[c] ELSE NoChat
FindMessage(m) == IF m \in 1..MaxMsgs THEN msgs[m] ELSE NoMsg

FreeMsgIds == {m \in 1..MaxMsgs : msgs[m] = NoMsg}
NewMsgId == CHOOSE m \in FreeMsgIds : \A n \in FreeMsgIds : m <= n

\* The text of a request's content field: absent, blank, or a text.
ReqContents == {NoVal, " ", "hi"}
\* MessageSchema.content: trim, required.
Trim(content) == IF content = " " THEN "" ELSE content

\* POST /api/community/messages   (uploadMultiple('attachments', 3) first)
SendMessage(actor, chatId, content, hasFile, outcome) ==
  /\ Protect(actor)
  /\ UNCHANGED <<users, chats, items, nextItem, comments, pend, anns>>
  /\ CanStore(hasFile)
  /\ disk' = Stored(hasFile)
  /\ LET chat == FindChat(chatId) IN
     IF chatId = 0 \/ content = NoVal
       THEN MsgReply("sendMessage", actor, chatId, 0, 400) /\ Quiet
     ELSE IF chat = NoChat
       THEN MsgReply("sendMessage", actor, chatId, 0, 404) /\ Quiet
     ELSE IF ~IsParticipant(chat, actor)
       THEN MsgReply("sendMessage", actor, chatId, 0, 403) /\ Quiet
     ELSE IF Trim(content) = ""
       THEN MsgReply("sendMessage", actor, chatId, 0, ErrorStatus("ValidationError"))
            /\ Quiet
     ELSE LET otherUsers == BagToSet(chat.users) \ {actor} IN
          /\ FreeMsgIds # {}
          /\ msgs' = [msgs EXCEPT ![NewMsgId] =
                        [chat |-> chatId, sender |-> actor, readBy |-> {actor},
                         isDeleted |-> FALSE,
                         attachments |-> IF hasFile THEN {FreshPath} ELSE {},
                         content |-> Trim(content)]]
          /\ IF otherUsers # {}
               THEN /\ Notify(otherUsers, outcome)
                    /\ resp' = MsgResp("sendMessage", actor, chatId, NewMsgId,
                                       AfterNotify(201, outcome))
               ELSE /\ Quiet
                    /\ resp' = MsgResp("sendMessage", actor, chatId, NewMsgId, 201)

\* The page and limit of a getMessages query string.
ReqPages == {NoVal, "1", "2", "-1"}
ReqLimits == {NoVal, "1"}
\* parseInt(req.query.page) || 1 and parseInt(req.query.limit) || 50
PageOf(page) == IF page = "-1" THEN -1 ELSE IF ParseInt(page) = 0 THEN 1 ELSE ParseInt(page)
LimitOf(limit) == IF ParseInt(limit) = 0 THEN 50 ELSE ParseInt(limit)

MessagesOf(c) == {m \in 1..MaxMsgs : msgs[m] # NoMsg /\ msgs[m].chat = c}

\* find({chat}).sort('-createdAt').skip(skip).limit(limit)
PageOfMessages(c, skip, limit) ==
  {m \in MessagesOf(c) :
     LET rank == Cardinality({n \in MessagesOf(c) : n >= m}) IN
     skip < rank /\ rank <= skip + limit}

\* The update restricted to the messages of the returned page.
MarkRead_PageOnly(c, u, page) ==
  [m \in 1..MaxMsgs |->
     IF m \in page /\ u \notin msgs[m].readBy
       THEN [msgs[m] EXCEPT !.readBy = @ \cup {u}] ELSE msgs[m]]

\* The update with $set in place of $addToSet.
MarkRead_Replace(c, u, page) ==
  [m \in 1..MaxMsgs |->
     IF m \in MessagesOf(c) /\ u \notin msgs[m].readBy
       THEN [msgs[m] EXCEPT !.readBy = {u}] ELSE msgs[m]]

\* updateMany({chat, readBy: {$ne: u}}, {$addToSet: {readBy: u}})
MarkRead(c, u, page) ==
  [m \in 1..MaxMsgs |->
     IF m \in MessagesOf(c) /\ u \notin msgs[m].readBy
       THEN [msgs[m] EXCEPT !.readBy = @ \cup {u}] ELSE msgs[m]]

\* GET /api/community/messages/:chatId
GetMessages(actor, chatId, page, limit) ==
  /\ Protect(actor)
  /\ UNCHANGED <<users, chats, contentVars, pend, anns>>
  /\ Quiet
  /\ LET chat == FindChat(chatId)
         skip == (PageOf(page) - 1) * LimitOf(limit)
     IN
     IF chat = NoChat THEN MsgReply("getMessages", actor, chatId, 0, 404)
     ELSE IF ~IsParticipant(chat, actor)
       THEN MsgReply("getMessages", actor, chatId, 0, 403)
     ELSE IF skip < 0
       THEN MsgReply("getMessages", actor, chatId, 0, ErrorStatus("MongoServerError"))
     ELSE /\ msgs' = MarkRead(chatId, actor, PageOfMessages(chatId, skip, LimitOf(limit)))
          /\ resp' = [op |-> "getMessages", actor |-> actor, chat |-> chatId,
                      msg |-> 0, status |-> 200,
                      data |-> PageOfMessages(chatId, skip, LimitOf(limit))]

\* DELETE /api/community/messages/:id
DeleteMessage(actor, id) ==
  /\ Protect(actor)
  /\ UNCHANGED <<users, chats, items, nextItem, comments, pend, anns>>
  /\ Quiet
  /\ LET message == FindMessage(id) IN
     IF message = NoMsg
       THEN MsgReply("deleteMessage", actor, 0, id, 404) /\ UNCHANGED disk
     ELSE IF message.sender # actor /\ RoleOf(actor) # "admin"
       THEN MsgReply("deleteMessage", actor, message.chat, id, 403) /\ UNCHANGED disk
     ELSE /\ msgs' = [msgs EXCEPT ![id] =
                        [@ EXCEPT !.isDeleted = TRUE,
                                  !.content = IF message.attachments # {}
                                                THEN "[Attachments removed]"
                                                ELSE "[Message deleted]",
                                  !.attachments = {}]]
          /\ disk' = disk \ message.attachments
          /\ resp' = MsgResp("deleteMessage", actor, message.chat, id, 200)

\* The $match stage of getUnreadCount for the user u.
UnreadOf(u) ==
  LET chatIds == {c \in DOMAIN chats : chats[c] # NoChat /\ Includes(chats[c].users, u)} IN
  {m \in 1..MaxMsgs : /\ msgs[m] # NoMsg
                      /\ msgs[m].chat \in chatIds
                      /\ msgs[m].sender # u
                      /\ u \notin msgs[m].readBy
                      /\ ~msgs[m].isDeleted}

\* The $group stage: one entry for each chat that has a matching message.
UnreadByChat(u) ==
  [c \in {msgs[m].chat : m \in UnreadOf(u)} |->
     Cardinality({m \in UnreadOf(u) : msgs[m].chat = c})]

RECURSIVE SumOver(_, _)
SumOver(f, S) ==
  IF S = {} THEN 0
  ELSE LET c == CHOOSE x \in S : TRUE IN f[c] + SumOver(f, S \ {c})

\* GET /api/community/unread
GetUnreadCount(actor) ==
  /\ Protect(actor)
  /\ UNCHANGED <<users, chats, contentVars, sideVars>>
  /\ Quiet
  /\ resp' = [op |-> "getUnreadCount", actor |-> actor, status |-> 200,
              unreadByChat |-> UnreadByChat(actor),
              totalUnread |-> SumOver(UnreadByChat(actor), DOMAIN UnreadByChat(actor))]

\* ===================================================================
\* Admin: announcements   (router: protect, authorize('admin'), then
\* uploadMultiple('attachments', 3) in front of createAnnouncement)
\* ===================================================================
\* An announcement is [postedBy, targetAudience, attachments].

\* The targetAudience field of a request: absent, malformed JSON, or the
\* JSON text of an audience.
ReqAudiences == {NoVal, "{", "{\"role\":\"student\"}", "{\"branch\":\"ECE\"}"}

\* The schema defaults of AnnouncementSchema.targetAudience.
AllAudience == [branch |-> "All", year |-> "All", semester |-> "All", role |-> "All"]

\* JSON.parse(targetAudience) with the schema defaults applied.
ParseAudience(text) ==
  CASE text = "{\"role\":\"student\"}" -> [AllAudience EXCEPT !.role = "student"]
    [] text = "{\"branch\":\"ECE\"}" -> [AllAudience EXCEPT !.branch = "ECE"]
    [] OTHER -> AllAudience

\* notifyUsers: the users its targetAudience filter selects.
AudienceUsers(aud) ==
  {u \in UserIds : /\ users[u] # NoUser
                   /\ aud.branch # "All" => users[u].branch = aud.branch
                   /\ aud.year # "All" => users[u].year = ParseInt(aud.year)
                   /\ aud.semester # "All" => users[u].semester = ParseInt(aud.semester)
                   /\ aud.role # "All" => users[u].role = aud.role}

FreeAnnIds == {a \in 1..MaxAnns : anns[a] = NoAnn}
NewAnnId == CHOOSE a \in FreeAnnIds : \A b \in FreeAnnIds : a <= b

\* POST /api/admin/announcements
CreateAnnouncement(actor, audience, hasFile, outcome) ==
  /\ Protect(actor)
  /\ UNCHANGED <<users, chats, items, nextItem, comments, pend, msgs>>
  /\ IF ~Authorize({"admin"}, actor)
       THEN /\ resp' = MsgResp("createAnnouncement", actor, 0, 0, 403)
            /\ UNCHANGED <<anns, disk>> /\ Quiet
     ELSE /\ CanStore(hasFile)
          /\ disk' = Stored(hasFile)
          /\ IF audience = "{"
               THEN /\ resp' = MsgResp("createAnnouncement", actor, 0, 0,
                                       ErrorStatus("SyntaxError"))
                    /\ UNCHANGED anns /\ Quiet
             ELSE /\ FreeAnnIds # {}
                  /\ anns' = [anns EXCEPT ![NewAnnId] =
                                [postedBy |-> actor,
                                 targetAudience |-> ParseAudience(audience),
                                 attachments |-> IF hasFile THEN {FreshPath} ELSE {}]]
                  /\ Notify(AudienceUsers(ParseAudience(audience)), outcome)
                  /\ resp' = MsgResp("createAnnouncement", actor, 0, NewAnnId,
                                     AfterNotify(201, outcome))

\* ===================================================================
\* Users: registration, sign-in, profile, admin user management
\* ===================================================================
\* A user document is [role, branch, year, semester]; its key is the
\* e-mail address (unique in the collection).

Profile(b, y, s) == [branch |-> b, year |-> y, semester |-> s]
UserDoc(role, p) ==
  [role |-> role, branch |-> p.branch, year |-> p.year, semester |-> p.semester]

\* Document validation of UserSchema (create, save): role enum; branch,
\* year and semester are required when role is student, and when present
\* must be in their enums.
ValidUserDoc(u) ==
  /\ u.role \in Roles
  /\ u.branch \in UserBranchEnum \/ (u.branch = NoVal /\ u.role # "student")
  /\ u.year \in YearEnum \/ (u.year = 0 /\ u.role # "student")
  /\ u.semester \in SemesterEnum \/ (u.semester = 0 /\ u.role # "student")

\* Update validators (findByIdAndUpdate with runValidators): only the
\* paths of the update are validated, each against its enum; a `required`
\* that depends on another path is not looked at.
ValidUserUpdate(role, p) ==
  /\ role = NoVal \/ role \in Roles
  /\ p.branch = NoVal \/ p.branch \in UserBranchEnum
  /\ p.year = 0 \/ p.year \in YearEnum
  /\ p.semester = 0 \/ p.semester \in SemesterEnum

\* updateFields of updateDetails / updateUser applied to a document: a
\* field of the body is taken when it is truthy.
MergedUser(u, role, p) ==
  [role |-> IF role # NoVal THEN role ELSE u.role,
   branch |-> IF p.branch # NoVal THEN p.branch ELSE u.branch,
   year |-> IF p.year # 0 THEN p.year ELSE u.year,
   semester |-> IF p.semester # 0 THEN p.semester ELSE u.semester]

UserResp(op, actor, target, status) ==
  [op |-> op, actor |-> actor, target |-> target, status |-> status]

\* A response that leaves the user collection as it is.
UserReply(op, actor, target, status) ==
  /\ resp' = UserResp(op, actor, target, status)
  /\ UNCHANGED users

\* role: 'student' in the User.create of register and googleAuth: the role
\* of the body is not passed on.
SelfServiceRole_AsAsked(role) == IF role # NoVal THEN role ELSE "student"
SelfServiceRole(role) == "student"

\* POST /api/auth/register  { email, role, branch, year, semester }
Register(email, role, p) ==
  /\ UNCHANGED <<chats, contentVars, sideVars>>
  /\ Quiet
  /\ IF users[email] # NoUser THEN UserReply("register", NoVal, email, 400)
     ELSE IF role # NoVal /\ role # "student" THEN UserReply("register", NoVal, email, 400)
     ELSE IF ~ValidUserDoc(UserDoc(SelfServiceRole(role), p))
       THEN UserReply("register", NoVal, email, ErrorStatus("ValidationError"))
     ELSE /\ users' = [users EXCEPT ![email] = UserDoc(SelfServiceRole(role), p)]
          /\ resp' = UserResp("register", NoVal, email, 201)

\* POST /api/auth/google  { idToken, role, branch, year, semester }
\* email: the address of the verified token; hasGoogleId: whether the
\* stored user already carries a googleId.
GoogleAuth(email, role, p, hasGoogleId) ==
  LET user == users[email]
      merged == [user EXCEPT !.branch = IF p.branch # NoVal THEN p.branch ELSE @,
                             !.year = IF p.year # 0 THEN p.year ELSE @,
                             !.semester = IF p.semester # 0 THEN p.semester ELSE @]
  IN
  /\ UNCHANGED <<chats, contentVars, sideVars>>
  /\ Quiet
  /\ IF user = NoUser
       THEN IF role = "student" /\ (p.branch = NoVal \/ p.year = 0 \/ p.semester = 0)
              THEN UserReply("googleAuth", NoVal, email, 400)
            ELSE IF ~ValidUserDoc(UserDoc(SelfServiceRole(role), p))
              THEN UserReply("googleAuth", NoVal, email, ErrorStatus("ValidationError"))
            ELSE /\ users' = [users EXCEPT ![email] = UserDoc(SelfServiceRole(role), p)]
                 /\ resp' = UserResp("googleAuth", NoVal, email, 200)
     ELSE IF ~hasGoogleId /\ ~ValidUserDoc(user)
       THEN UserReply("googleAuth", NoVal, email, ErrorStatus("ValidationError"))
     ELSE IF user.role = "student"
               /\ (user.branch = NoVal \/ user.year = 0 \/ user.semester = 0)
       THEN IF ~ValidUserDoc(merged)
              THEN UserReply("googleAuth", NoVal, email, ErrorStatus("ValidationError"))
            ELSE /\ users' = [users EXCEPT ![email] = merged]
                 /\ resp' = UserResp("googleAuth", NoVal, email, 200)
     ELSE UserReply("googleAuth", NoVal, email, 200)

\* POST /api/auth/login  { email, password, fcmToken }
\* isMatch: whether the password matches; hasToken: an fcmToken came.
Login(email, isMatch, hasToken) ==
  /\ UNCHANGED <<chats, contentVars, sideVars>>
  /\ Quiet
  /\ IF users[email] = NoUser \/ ~isMatch THEN UserReply("login", NoVal, email, 401)
     ELSE IF hasToken /\ ~ValidUserDoc(users[email])
       THEN UserReply("login", NoVal, email, ErrorStatus("ValidationError"))
     ELSE UserReply("login", NoVal, email, 200)

\* POST /api/auth/verify-otp  { otp }
\* isMatch: an unexpired OTP is stored and the given one matches it.
\* isVerified and the OTP fields are not part of the user record.
VerifyOTP(actor, isMatch) ==
  /\ Protect(actor)
  /\ UNCHANGED <<chats, contentVars, sideVars>>
  /\ Quiet
  /\ IF ~isMatch THEN UserReply("verifyOTP", actor, actor, 400)
     ELSE IF ~ValidUserDoc(users[actor])
       THEN UserReply("verifyOTP", actor, actor, ErrorStatus("ValidationError"))
     ELSE UserReply("verifyOTP", actor, actor, 200)

\* PUT /api/auth/update-password  { currentPassword, newPassword }
UpdatePassword(actor, isMatch) ==
  /\ Protect(actor)
  /\ UNCHANGED <<chats, contentVars, sideVars>>
  /\ Quiet
  /\ IF ~isMatch THEN UserReply("updatePassword", actor, actor, 401)
     ELSE IF ~ValidUserDoc(users[actor])
       THEN UserReply("updatePassword", actor, actor, ErrorStatus("ValidationError"))
     ELSE UserReply("updatePassword", actor, actor, 200)

\* PUT /api/auth/update-details  { branch, year, semester }
UpdateDetails(actor, p) ==
  /\ Protect(actor)
  /\ UNCHANGED <<chats, contentVars, sideVars>>
  /\ Quiet
  /\ IF RoleOf(actor) # "student" THEN UserReply("updateDetails", actor, actor, 200)
     ELSE IF ~ValidUserUpdate(NoVal, p)
       THEN UserReply("updateDetails", actor, actor, ErrorStatus("ValidationError"))
     ELSE /\ users' = [users EXCEPT ![actor] = MergedUser(@, NoVal, p)]
          /\ resp' = UserResp("updateDetails", actor, actor, 200)

\* POST /api/admin/users  { email, role, branch }   (year and semester of
\* the body are not passed on; role defaults to student)
CreateUser(actor, email, role, branch) ==
  LET doc == UserDoc(IF role = NoVal THEN "student" ELSE role, Profile(branch, 0, 0)) IN
  /\ Protect(actor)
  /\ UNCHANGED <<chats, contentVars, sideVars>>
  /\ Quiet
  /\ IF ~Authorize({"admin"}, actor) THEN UserReply("createUser", actor, email, 403)
     ELSE IF users[email] # NoUser THEN UserReply("createUser", actor, email, 400)
     ELSE IF ~ValidUserDoc(doc)
       THEN UserReply("createUser", actor, email, ErrorStatus("ValidationError"))
     ELSE /\ users' = [users EXCEPT ![email] = doc]
          /\ resp' = UserResp("createUser", actor, email, 201)

\* PUT /api/admin/users/:id  { role, branch, year, semester }
UpdateUser(actor, id, role, p) ==
  /\ Protect(actor)
  /\ UNCHANGED <<chats, contentVars, sideVars>>
  /\ Quiet
  /\ IF ~Authorize({"admin"}, actor) THEN UserReply("updateUser", actor, id, 403)
     ELSE IF ~ValidUserUpdate(role, p)
       THEN UserReply("updateUser", actor, id, ErrorStatus("ValidationError"))
     ELSE IF users[id] = NoUser THEN UserReply("updateUser", actor, id, 404)
     ELSE /\ users' = [users EXCEPT ![id] = MergedUser(@, role, p)]
          /\ resp' = UserResp("updateUser", actor, id, 200)

\* DELETE /api/admin/users/:id
\* User.countDocuments({ role: 'admin' })
AdminCount == Cardinality({u \in UserIds : users[u] # NoUser /\ users[u].role = "admin"})

IsLastAdmin_NoGuard(id) == FALSE

\* user.role === 'admin' and adminCount <= 1
IsLastAdmin(id) == users[id].role = "admin" /\ AdminCount <= 1

DeleteUser(actor, id) ==
  /\ Protect(actor)
  /\ UNCHANGED <<chats, contentVars, sideVars>>
  /\ Quiet
  /\ IF ~Authorize({"admin"}, actor) THEN UserReply("deleteUser", actor, id, 403)
     ELSE IF users[id] = NoUser THEN UserReply("deleteUser", actor, id, 404)
     ELSE IF IsLastAdmin(id)
       THEN UserReply("deleteUser", actor, id, 400)
     ELSE /\ users' = [users EXCEPT ![id] = NoUser]
          /\ resp' = UserResp("deleteUser", actor, id, 200)

\* ===================================================================
\* Listings: GET /api/notes, /api/videos, /api/pyq, /api/syllabus
\* ===================================================================
\* A query string is [branch, year, semester, isVerified], each a text or
\* absent; year and semester texts are digits.
Query(b, y, s, v) == [branch |-> b, year |-> y, semester |-> s, isVerified |-> v]

\* filterEducationalResources(query, userRole, userData): the query's
\* value if there is one, else the profile value of a student if truthy
\* (0 / NoVal: no constraint).
filterEducationalResources(query, userRole, userData) ==
  [branch |-> IF query.branch # NoVal THEN query.branch
              ELSE IF userRole = "student" /\ userData.branch # NoVal THEN userData.branch
              ELSE NoVal,
   year |-> IF query.year # NoVal THEN ParseInt(query.year)
            ELSE IF userRole = "student" /\ userData.year # 0 THEN userData.year
            ELSE 0,
   semester |-> IF query.semester # NoVal THEN ParseInt(query.semester)
                ELSE IF userRole = "student" /\ userData.semester # 0 THEN userData.semester
                ELSE 0]

\* The branch / year / semester part of Model.find(filterObj).
ScopeMatches(doc, filter) ==
  /\ filter.branch = NoVal \/ doc.branch = filter.branch
  /\ filter.year = 0 \/ doc.year = filter.year
  /\ filter.semester = 0 \/ doc.semester = filter.semester

\* Variant: unverified documents are left out of every listing.
Matches_VerifiedOnly(doc, query, filter) ==
  /\ ScopeMatches(doc, filter)
  /\ doc.kind # "syllabus" => doc.isVerified
  /\ query.isVerified = NoVal
       \/ (doc.kind # "syllabus" /\ doc.isVerified = ParseBool(query.isVerified))

\* Model.find(buildFilterObject({...req.query, ...resourceFilter})): the
\* resource filter, and every other field of the query string as an
\* equality on the path of that name (isVerified is cast to a boolean; a
\* syllabus has no such path and matches no value of it).
Matches(doc, query, filter) ==
  /\ ScopeMatches(doc, filter)
  /\ query.isVerified = NoVal
       \/ (doc.kind # "syllabus" /\ doc.isVerified = ParseBool(query.isVerified))

\* The _ids a listing of `kind` returns from the collections db.
ListIds(db, kind, actor, query) ==
  LET filter == filterEducationalResources(query, RoleOf(actor), users[actor]) IN
  {i \in 1..MaxItems : db[i] # NoItem /\ db[i].kind = kind /\ Matches(db[i], query, filter)}

ListResp(op, actor, query, ids) ==
  [op |-> op, actor |-> actor, status |-> 200, query |-> query, ids |-> ids]

\* GET /api/notes
GetNotes(actor, query) ==
  /\ Protect(actor)
  /\ UNCHANGED <<users, chats, contentVars, sideVars>>
  /\ Quiet
  /\ resp' = ListResp("getNotes", actor, query, ListIds(items, "note", actor, query))

\* GET /api/videos
GetVideos(actor, query) ==
  /\ Protect(actor)
  /\ UNCHANGED <<users, chats, contentVars, sideVars>>
  /\ Quiet
  /\ resp' = ListResp("getVideos", actor, query, ListIds(items, "video", actor, query))

\* GET /api/pyq
GetPYQs(actor, query) ==
  /\ Protect(actor)
  /\ UNCHANGED <<users, chats, contentVars, sideVars>>
  /\ Quiet
  /\ resp' = ListResp("getPYQs", actor, query, ListIds(items, "pyq", actor, query))

\* GET /api/syllabus
GetSyllabi(actor, query) ==
  /\ Protect(actor)
  /\ UNCHANGED <<users, chats, contentVars, sideVars>>
  /\ Quiet
  /\ resp' = ListResp("getSyllabi", actor, query, ListIds(items, "syllabus", actor, query))

\* ------------------------------------------------------------------
\* Initial state: one verified student, one teacher and one admin; no
\* chats and no content yet.
InitUsers ==
  [u \in UserIds |->
     CASE u = "s1" -> [role |-> "student", branch |-> "ECE", year |-> 2, semester |-> 3]
       [] u = "t1" -> [role |-> "teacher", branch |-> NoVal, year |-> 0, semester |-> 0]
       [] OTHER    -> [role |-> "admin", branch |-> NoVal, year |-> 0, semester |-> 0]]

\* Nothing sent, no request in flight, empty Message and Announcement
\* collections, empty upload directory, no comments.
InitSide ==
  /\ notif = NoNotif
  /\ io = NoIo
  /\ pend = [u \in UserIds |-> NoPend]
  /\ msgs = [m \in 1..MaxMsgs |-> NoMsg]
  /\ anns = [a \in 1..MaxAnns |-> NoAnn]
  /\ comments = [k \in 1..MaxComments |-> NoComment]

Init ==
  /\ users = InitUsers
  /\ chats = [c \in 1..MaxChats |-> NoChat]
  /\ items = [i \in 1..MaxItems |-> NoItem]
  /\ nextItem = 1
  /\ resp = NoResp
  /\ disk = {}
  /\ InitSide

\* The community requests of the group-membership state machine.
NextChat ==
  \/ \E actor \in UserIds, userId \in UserIds \cup {NoVal} : AccessChat(actor, userId)
  \/ \E actor \in UserIds, n \in ChatNames \cup {NoVal}, p \in ReqBools,
        b \in ChatBranches :
        \E l \in ReqUserLists(UserIds \ {actor}) : CreateGroupChat(actor, n, l, p, b)
  \/ \E actor \in UserIds, c \in 1..MaxChats, n \in ChatNames \cup {NoVal},
        p \in ReqBools, b \in ChatBranches :
        UpdateGroupChat(actor, c, n, p, b)
  \/ \E actor \in UserIds, c \in 1..MaxChats, l \in ReqUserLists(UserIds) :
        AddToGroup(actor, c, l)
  \/ \E actor \in UserIds, c \in 1..MaxChats, userId \in UserIds :
        RemoveFromGroup(actor, c, userId)
  \/ \E actor \in UserIds, c \in 1..MaxChats, o \in NotifyOutcomes :
        JoinGroup(actor, c, o)
  \/ \E actor \in UserIds, c \in 1..MaxChats : LeaveGroup(actor, c)
  \/ \E actor \in UserIds, c \in 1..MaxChats, userId \in UserIds, o \in NotifyOutcomes :
        TransferGroupOwnership(actor, c, userId, o)

SpecChat == Init /\ [][NextChat]_vars

\* The same requests with every group created by the teacher t1, so that a
\* group admin other than t1 is the result of an ownership transfer.
NextOwner ==
  \/ \E actor \in UserIds, userId \in UserIds \cup {NoVal} : AccessChat(actor, userId)
  \/ \E n \in ChatNames \cup {NoVal}, p \in ReqBools, b \in ChatBranches,
        l \in ReqUserLists(UserIds \ {"t1"}) : CreateGroupChat("t1", n, l, p, b)
  \/ \E actor \in UserIds, c \in 1..MaxChats, n \in ChatNames \cup {NoVal},
        p \in ReqBools, b \in ChatBranches :
        UpdateGroupChat(actor, c, n, p, b)
  \/ \E actor \in UserIds, c \in 1..MaxChats, l \in ReqUserLists(UserIds) :
        AddToGroup(actor, c, l)
  \/ \E actor \in UserIds, c \in 1..MaxChats, userId \in UserIds :
        RemoveFromGroup(actor, c, userId)
  \/ \E actor \in UserIds, c \in 1..MaxChats, o \in NotifyOutcomes :
        JoinGroup(actor, c, o)
  \/ \E actor \in UserIds, c \in 1..MaxChats : LeaveGroup(actor, c)
  \/ \E actor \in UserIds, c \in 1..MaxChats, userId \in UserIds, o \in NotifyOutcomes :
        TransferGroupOwnership(actor, c, userId, o)

SpecOwner == Init /\ [][NextOwner]_vars

\* ------------------------------------------------------------------
\* Group-chat claims
\* ------------------------------------------------------------------
IsGroup(chat) == chat # NoChat /\ chat.isGroupChat
GroupIds == {c \in 1..MaxChats : IsGroup(chats[c])}
GroupOps == {"createGroupChat", "updateGroupChat", "addToGroup", "removeFromGroup",
             "joinGroup", "leaveGroup", "transferGroupOwnership"}
\* The response answers a request on a group chat that existed before it.
OnGroup(r) == r.op \in GroupOps /\ r.chat \in 1..MaxChats /\ r.admin # NoVal

\* C1 as written: every group chat has a groupAdmin, and that user is one
\* of the chat's users, in every reachable state.
C1_AdminAlwaysMember ==
  \A c \in GroupIds :
    chats[c].groupAdmin \in UserIds /\ Includes(chats[c].users, chats[c].groupAdmin)

\* The one request that takes the group admin out of users: a successful
\* removeFromGroup by an app admin (role admin) aimed at the group admin.
AppAdminRemovedAdmin(r) ==
  /\ r.op = "removeFromGroup" /\ Ok(r.status)
  /\ RoleOf(r.actor) = "admin" /\ r.target = r.admin

\* C1, amended: every group chat always has a groupAdmin; a new group has
\* its groupAdmin among its users, and every request other than an app
\* admin's removeFromGroup of the group admin keeps it among them.
C1_AdminMemberButForAppAdminRemoval ==
  [][\A c \in 1..MaxChats :
       IsGroup(chats'[c]) =>
         /\ chats'[c].groupAdmin \in UserIds
         /\ ( /\ IsGroup(chats[c]) => Includes(chats[c].users, chats[c].groupAdmin)
              /\ ~(resp'.chat = c /\ AppAdminRemovedAdmin(resp')) )
            => Includes(chats'[c].users, chats'[c].groupAdmin)]_vars

\* C1 witness: ownership of a group with several users has been handed to
\* another member, who is the one groupAdmin and is in users.
C1_Witness ==
  /\ resp.op = "transferGroupOwnership" /\ Ok(resp.status) /\ resp.target # resp.admin
  /\ chats[resp.chat].groupAdmin = resp.target
  /\ Includes(chats[resp.chat].users, resp.target)
  /\ Cardinality(BagToSet(chats[resp.chat].users)) >= 2

\* C2: a removeFromGroup or leaveGroup whose target is the current group
\* admin, made by an actor whose role is not admin, is rejected and leaves
\* the chat (users and groupAdmin included) as it was.
C2_AdminRemovalRejected ==
  [][( /\ resp'.op \in {"removeFromGroup", "leaveGroup"} /\ OnGroup(resp')
       /\ resp'.target = resp'.admin
       /\ RoleOf(resp'.actor) # "admin" )
     => ~Ok(resp'.status) /\ chats' = chats]_vars

\* C2 witness: the group admin (not an app admin) asked to be removed from
\* the own group and got 403, still admin and still a member.
C2_Witness ==
  /\ resp.op = "removeFromGroup" /\ OnGroup(resp) /\ resp.status = 403
  /\ resp.target = resp.admin /\ resp.actor = resp.admin
  /\ RoleOf(resp.actor) # "admin"
  /\ chats[resp.chat].groupAdmin = resp.actor
  /\ Includes(chats[resp.chat].users, resp.actor)

\* The requests C3 is about: the three admin-only mutations and a
\* removeFromGroup aimed at somebody else.
C3_Guarded(r) ==
  /\ OnGroup(r)
  /\ \/ r.op \in {"updateGroupChat", "addToGroup", "transferGroupOwnership"}
     \/ r.op = "removeFromGroup" /\ r.target # r.actor

Copies(bag, u) == IF BagIn(u, bag) THEN bag[u] ELSE 0
\* users after is users before without u, everybody else as before.
RemovedExactly(before, after, u) ==
  /\ ~BagIn(u, after)
  /\ \A v \in UserIds \ {u} : Copies(after, v) = Copies(before, v)

\* C4: (a) leaveGroup by a member who is not the group admin succeeds and
\* removes exactly that member; (b) leaveGroup by the group admin is denied
\* and changes nothing; (c) after the admin M, a member, has handed
\* ownership to another member, M is still a member, the target is the
\* admin, and a leaveGroup by M that follows succeeds and removes exactly M.
C4_LeaveRules ==
  [][/\ ( /\ resp'.op = "leaveGroup" /\ OnGroup(resp') /\ IsGroup(chats[resp'.chat])
          /\ Includes(chats[resp'.chat].users, resp'.actor) )
        => IF resp'.actor = resp'.admin
             THEN resp'.status = 400 /\ chats' = chats
             ELSE /\ Ok(resp'.status)
                  /\ RemovedExactly(chats[resp'.chat].users, chats'[resp'.chat].users,
                                    resp'.actor)
                  /\ chats'[resp'.chat].groupAdmin = chats[resp'.chat].groupAdmin
     /\ ( /\ resp'.op = "transferGroupOwnership" /\ Ok(resp'.status)
          /\ resp'.actor = resp'.admin /\ resp'.target # resp'.actor
          /\ Includes(chats[resp'.chat].users, resp'.actor) )
        => /\ chats'[resp'.chat].groupAdmin = resp'.target
           /\ Includes(chats'[resp'.chat].users, resp'.actor)
     /\ ( /\ resp.op = "transferGroupOwnership" /\ Ok(resp.status)
          /\ resp.actor = resp.admin /\ resp.target # resp.actor
          /\ Includes(chats[resp.chat].users, resp.actor)
          /\ resp'.op = "leaveGroup" /\ resp'.chat = resp.chat
          /\ resp'.actor = resp.actor )
        => /\ Ok(resp'.status)
           /\ RemovedExactly(chats[resp.chat].users, chats'[resp.chat].users, resp.actor)]_vars

\* C4 witness: t1, who created the group and so was its admin, has left it
\* (every group of SpecOwner is created by t1: the admin is somebody else
\* only after a transfer), and the others are still there.
C4_Witness ==
  /\ resp.op = "leaveGroup" /\ Ok(resp.status) /\ resp.actor = "t1"
  /\ resp.admin # "t1"
  /\ chats[resp.chat].groupAdmin = resp.admin
  /\ ~Includes(chats[resp.chat].users, "t1")
  /\ Includes(chats[resp.chat].users, resp.admin)

\* ------------------------------------------------------------------
\* The content requests.
\* Bodies of create and update requests: the scope, and an isVerified field
\* a client may add.
ScopeBody(b, v) == [branch |-> b, year |-> "2", semester |-> "3", isVerified |-> v]
ReqScopeBodies ==
  {ScopeBody(NoVal, NoVal), ScopeBody("CSE", NoVal), ScopeBody("ECE", "false"),
   ScopeBody("Computer Science", NoVal)}
\* contentId of a verify-content body; 0: absent.
ReqItemIds == 0..MaxItems
ReqContentTypes == {NoVal, "note", "video", "pyq", "syllabus"}

NextContent ==
  \/ \E actor \in UserIds, body \in ReqScopeBodies, f \in BOOLEAN : CreateNote(actor, body, f)
  \/ \E actor \in UserIds, id \in 1..MaxItems, body \in ReqScopeBodies, f \in BOOLEAN :
        UpdateNote(actor, id, body, f)
  \/ \E actor \in UserIds, id \in 1..MaxItems : DeleteNote(actor, id)
  \/ \E actor \in UserIds, id \in 1..MaxItems : VerifyNote(actor, id)
  \/ \E actor \in UserIds, id \in 1..MaxItems : GetNote(actor, id)
  \/ \E actor \in {"s1"}, id \in 1..MaxItems, r \in {0, 5} : AddRating(actor, id, r)
  \/ \E actor \in UserIds, id \in 1..MaxItems : DownloadNote(actor, id)
  \/ \E actor \in UserIds, id \in 1..MaxItems : IncrementNoteViews(actor, id)
  \/ \E actor \in UserIds, body \in ReqScopeBodies, src \in VideoSources :
        CreateVideo(actor, body, src)
  \/ \E actor \in UserIds, id \in 1..MaxItems, body \in ReqScopeBodies, f \in BOOLEAN :
        UpdateVideo(actor, id, body, f)
  \/ \E actor \in UserIds, id \in 1..MaxItems : DeleteVideo(actor, id)
  \/ \E actor \in UserIds, id \in 1..MaxItems : VerifyVideo(actor, id)
  \/ \E actor \in UserIds, id \in 1..MaxItems : GetVideo(actor, id)
  \/ \E actor \in {"s1"}, id \in 1..MaxItems : LikeVideo(actor, id)
  \/ \E actor \in UserIds, id \in 1..MaxItems, t \in BOOLEAN : AddComment(actor, id, t)
  \/ \E actor \in UserIds, body \in ReqScopeBodies, f \in BOOLEAN : CreatePYQ(actor, body, f)
  \/ \E actor \in UserIds, id \in 1..MaxItems, body \in ReqScopeBodies, f \in BOOLEAN :
        UpdatePYQ(actor, id, body, f)
  \/ \E actor \in UserIds, id \in 1..MaxItems : DeletePYQ(actor, id)
  \/ \E actor \in UserIds, id \in 1..MaxItems : VerifyPYQ(actor, id)
  \/ \E actor \in UserIds, id \in 1..MaxItems : GetPYQ(actor, id)
  \/ \E actor \in UserIds, id \in 1..MaxItems : DownloadPYQ(actor, id)
  \/ \E actor \in UserIds, id \in 1..MaxItems, f \in BOOLEAN : AddSolution(actor, id, f)
  \/ \E actor \in UserIds, t \in ReqContentTypes, id \in ReqItemIds, o \in NotifyOutcomes :
        VerifyContent(actor, t, id, o)

SpecContent == Init /\ [][NextContent]_vars

\* ------------------------------------------------------------------
\* Verification-flag claims
\* ------------------------------------------------------------------
\* C5: once a Note, Video or PYQ has isVerified = true it keeps it in every
\* later state in which the document exists, whatever requests (create,
\* update, verify, verify-content, like, rate, comment, view, download,
\* delete of other documents) are made and by whom.
C5_VerifiedStays ==
  [][\A i \in 1..MaxItems :
       (items[i] # NoItem /\ items[i].isVerified /\ items'[i] # NoItem)
         => items'[i].isVerified]_vars

\* C5 witness: a student's upload has been verified and then updated by
\* the student, and is still verified.
C5_Witness ==
  /\ resp.op \in {"updateNote", "updateVideo", "updatePYQ"} /\ Ok(resp.status)
  /\ RoleOf(resp.actor) = "student"
  /\ items[resp.item].uploadedBy = resp.actor
  /\ items[resp.item].isVerified

\* C9: a Note, Video or PYQ comes into existence with isVerified = true if
\* the uploading actor is a teacher or an admin and with isVerified = false
\* if the actor is a student (and the uploader recorded is the actor).
C9_CreatedFlagByRole ==
  [][\A i \in 1..MaxItems :
       (items[i] = NoItem /\ items'[i] # NoItem) =>
         /\ resp'.op \in {"createNote", "createVideo", "createPYQ"}
         /\ resp'.item = i /\ resp'.status = 201
         /\ items'[i].uploadedBy = resp'.actor
         /\ items'[i].isVerified = (RoleOf(resp'.actor) \in {"teacher", "admin"})
         /\ RoleOf(resp'.actor) = "student" => ~items'[i].isVerified]_vars

\* C9 witness: a video a student has just created, unverified.
C9_Witness ==
  /\ resp.op = "createVideo" /\ resp.status = 201
  /\ RoleOf(resp.actor) = "student"
  /\ items[resp.item].kind = "video"
  /\ ~items[resp.item].isVerified

VerifyOps == {"verifyNote", "verifyVideo", "verifyPYQ", "verifyContent"}
\* The collection a per-kind verify route looks the id up in.
VerifyKind(op) ==
  CASE op = "verifyNote" -> "note" [] op = "verifyVideo" -> "video" [] OTHER -> "pyq"

\* C10: isVerified goes from false to true only in a verify request of a
\* teacher or an admin; a teacher's or admin's verify of an existing item
\* succeeds whoever uploaded it; a student's verify request (the
\* uploader's included) gets 403 and changes nothing.
C10_OnlyStaffVerify ==
  [][/\ \A i \in 1..MaxItems :
          (items[i] # NoItem /\ ~items[i].isVerified
             /\ items'[i] # NoItem /\ items'[i].isVerified)
            => /\ resp'.op \in VerifyOps /\ resp'.item = i
               /\ RoleOf(resp'.actor) \in {"teacher", "admin"}
     /\ (resp'.op \in VerifyOps /\ RoleOf(resp'.actor) = "student")
          => resp'.status = 403 /\ items' = items
     /\ ( /\ resp'.op \in VerifyOps \ {"verifyContent"}
          /\ RoleOf(resp'.actor) \in {"teacher", "admin"}
          /\ FindById(VerifyKind(resp'.op), resp'.item) # NoItem )
          => Ok(resp'.status) /\ items'[resp'.item].isVerified]_vars

\* C10 witness: a student asked to verify the own unverified note and got
\* 403; the note is still unverified.
C10_Witness ==
  /\ resp.op = "verifyNote" /\ resp.status = 403
  /\ RoleOf(resp.actor) = "student"
  /\ FindById("note", resp.item) # NoItem
  /\ items[resp.item].uploadedBy = resp.actor
  /\ ~items[resp.item].isVerified

\* ------------------------------------------------------------------
\* Listings over a growing catalogue: the content requests and the four
\* listings, users as in Init.
ReqQueries ==
  {Query(NoVal, NoVal, NoVal, NoVal), Query("CSE", "2", "3", NoVal),
   Query("ECE", NoVal, NoVal, NoVal), Query(NoVal, NoVal, NoVal, "true"),
   Query(NoVal, NoVal, NoVal, "false")}

NextBrowse ==
  \/ NextContent
  \/ \E actor \in UserIds, q \in ReqQueries : GetNotes(actor, q)
  \/ \E actor \in UserIds, q \in ReqQueries : GetVideos(actor, q)
  \/ \E actor \in UserIds, q \in ReqQueries : GetPYQs(actor, q)
  \/ \E actor \in UserIds, q \in ReqQueries : GetSyllabi(actor, q)

SpecBrowse == Init /\ [][NextBrowse]_vars

\* ------------------------------------------------------------------
\* Listings under user management: a catalogue of one document uploaded by
\* the admin, s1 not yet registered.
ContentKinds == {"note", "video", "pyq"}
Catalogue ==
  {[kind |-> k, branch |-> b, year |-> 2, semester |-> 3, uploadedBy |-> "a1",
    isVerified |-> TRUE, filePath |-> IF k = "video" THEN 0 ELSE 1] :
     k \in ContentKinds, b \in {"CSE", "ECE"}}
  \cup {[kind |-> "syllabus", branch |-> b, year |-> 2, semester |-> 3,
         uploadedBy |-> "a1", filePath |-> 1] : b \in {"CSE", "ECE"}}

InitListing ==
  /\ users = [InitUsers EXCEPT !["s1"] = NoUser]
  /\ chats = [c \in 1..MaxChats |-> NoChat]
  /\ \E doc \in Catalogue : items = [i \in 1..MaxItems |-> IF i = 1 THEN doc ELSE NoItem]
  /\ nextItem = 2
  /\ resp = NoResp
  /\ disk = {items[1].filePath} \ {0}
  /\ InitSide

ReqProfiles ==
  {Profile(NoVal, 0, 0), Profile("ECE", 2, 3), Profile("Computer Science", 2, 3),
   Profile("CSE", 2, 3)}
ReqRoles == {NoVal, "student", "teacher"}
\* The accounts that are registered, created, updated and deleted; the
\* admin a1 stays as it is.
ReqAccounts == {"s1", "t1"}

NextListing ==
  \/ \E e \in ReqAccounts, r \in ReqRoles, p \in ReqProfiles : Register(e, r, p)
  \/ \E e \in ReqAccounts, r \in ReqRoles, p \in ReqProfiles, g \in BOOLEAN :
        GoogleAuth(e, r, p, g)
  \/ \E actor \in UserIds, p \in ReqProfiles : UpdateDetails(actor, p)
  \/ \E actor \in UserIds, e \in ReqAccounts, r \in ReqRoles, p \in ReqProfiles :
        CreateUser(actor, e, r, p.branch)
  \/ \E actor \in UserIds, id \in ReqAccounts, r \in ReqRoles, p \in ReqProfiles :
        UpdateUser(actor, id, r, p)
  \/ \E actor \in UserIds, id \in ReqAccounts : DeleteUser(actor, id)
  \/ \E actor \in UserIds, q \in ReqQueries : GetNotes(actor, q)
  \/ \E actor \in UserIds, q \in ReqQueries : GetVideos(actor, q)
  \/ \E actor \in UserIds, q \in ReqQueries : GetPYQs(actor, q)
  \/ \E actor \in UserIds, q \in ReqQueries : GetSyllabi(actor, q)

SpecListing == InitListing /\ [][NextListing]_vars

\* ------------------------------------------------------------------
\* The whole API modelled here: every request of the three groups, from
\* the initial state with the three seeded accounts.
Next == NextChat \/ NextBrowse \/ NextListing

Spec == Init /\ [][Next]_vars

\* ------------------------------------------------------------------
\* Visibility claims
\* ------------------------------------------------------------------
ListOps == {"getNotes", "getVideos", "getPYQs", "getSyllabi"}
ListKind(op) ==
  CASE op = "getNotes" -> "note" [] op = "getVideos" -> "video"
    [] op = "getPYQs" -> "pyq" [] OTHER -> "syllabus"
\* The response answers a listing whose query names no branch, year or
\* semester.
Unfiltered(r) ==
  /\ r.op \in ListOps
  /\ r.query.branch = NoVal /\ r.query.year = NoVal /\ r.query.semester = NoVal

\* C6: every item a student gets from a listing (notes, syllabus, videos,
\* PYQs) whose query names no branch, year or semester has the student's
\* own branch, year and semester.
C6_StudentSeesOwnScopeOnly ==
  (Unfiltered(resp) /\ RoleOf(resp.actor) = "student") =>
    \A i \in resp.ids :
      /\ items[i].branch = users[resp.actor].branch
      /\ items[i].year = users[resp.actor].year
      /\ items[i].semester = users[resp.actor].semester

\* C7: a stored note of scope (b, y, s) is in the unfiltered note listing
\* of every student whose profile is (b, y, s), is in no unfiltered note
\* listing of a student whose branch is not b, and is in the listing of
\* anybody who queries branch=b, year=y, semester=s; and the student of
\* that scenario exists for b = CSE: registering a student with branch
\* CSE, year 2, semester 3 under a free e-mail address succeeds.
C7_NoteVisibility ==
  [][/\ \A i \in 1..MaxItems :
          (resp'.op = "getNotes" /\ items'[i] # NoItem /\ items'[i].kind = "note") =>
            /\ ( /\ Unfiltered(resp') /\ resp'.query.isVerified = NoVal
                 /\ users'[resp'.actor].role = "student"
                 /\ users'[resp'.actor].branch = items'[i].branch
                 /\ users'[resp'.actor].year = items'[i].year
                 /\ users'[resp'.actor].semester = items'[i].semester )
               => i \in resp'.ids
            /\ ( /\ Unfiltered(resp')
                 /\ users'[resp'.actor].role = "student"
                 /\ users'[resp'.actor].branch # items'[i].branch )
               => i \notin resp'.ids
            /\ ( /\ resp'.query.isVerified = NoVal
                 /\ resp'.query.branch = items'[i].branch
                 /\ ParseInt(resp'.query.year) = items'[i].year
                 /\ ParseInt(resp'.query.semester) = items'[i].semester )
               => i \in resp'.ids
     /\ \A e \in UserIds :
          (users[e] = NoUser /\ Register(e, NoVal, Profile("CSE", 2, 3)))
            => (resp'.status = 201 /\ users'[e].branch = "CSE")]_vars

\* The collections with the isVerified flags of notes, videos and PYQs
\* set as f says, everything else as in db.
WithFlags(db, f) ==
  [i \in 1..MaxItems |->
     IF db[i] # NoItem /\ db[i].kind # "syllabus"
       THEN [db[i] EXCEPT !.isVerified = f[i]] ELSE db[i]]

C11_VerifyNotifiesUploader ==
  [][\A i \in 1..MaxItems :
       ( /\ items[i] # NoItem /\ items'[i] # NoItem
         /\ ~items[i].isVerified /\ items'[i].isVerified )
       => ( /\ notif'.outcome \in NotifyOutcomes
            /\ notif'.to = {items[i].uploadedBy} )]_vars


\* ------------------------------------------------------------------
\* The five requests that dispatch a notification after their write
\* ------------------------------------------------------------------
NextNotify ==
  \/ \E p \in {"true", "false"}, l \in ReqUserLists({"s1"}) :
        CreateGroupChat("t1", "g1", l, p, NoVal)
  \/ \E actor \in UserIds, c \in 1..MaxChats, o \in NotifyOutcomes :
        JoinGroup(actor, c, o)
  \/ \E actor \in UserIds, c \in 1..MaxChats, userId \in UserIds, o \in NotifyOutcomes :
        TransferGroupOwnership(actor, c, userId, o)
  \/ \E actor \in {"s1", "t1"} : CreateNote(actor, ScopeBody("CSE", NoVal), TRUE)
  \/ \E actor \in UserIds, t \in {"note", "video"}, id \in ReqItemIds, o \in NotifyOutcomes :
        VerifyContent(actor, t, id, o)
  \/ \E actor \in UserIds, c \in 0..MaxChats, t \in ReqContents, o \in NotifyOutcomes :
        SendMessage(actor, c, t, FALSE, o)
  \/ \E actor \in {"t1", "a1"}, a \in ReqAudiences, o \in NotifyOutcomes :
        CreateAnnouncement(actor, a, FALSE, o)

SpecNotify == Init /\ [][NextNotify]_vars

\* The write of the request whose response is r is in the database.
Persisted(r) ==
  CASE r.op = "verifyContent" -> items[r.item] # NoItem /\ items[r.item].isVerified
    [] r.op = "joinGroup" -> chats[r.chat] # NoChat /\ Includes(chats[r.chat].users, r.actor)
    [] r.op = "transferGroupOwnership" ->
         chats[r.chat] # NoChat /\ chats[r.chat].groupAdmin = r.target
    [] r.op = "sendMessage" ->
         /\ r.msg \in 1..MaxMsgs /\ msgs[r.msg] # NoMsg
         /\ msgs[r.msg].sender = r.actor /\ msgs[r.msg].chat = r.chat
    [] r.op = "createAnnouncement" ->
         /\ r.msg \in 1..MaxAnns /\ anns[r.msg] # NoAnn
         /\ anns[r.msg].postedBy = r.actor
    [] OTHER -> FALSE

\* C12: for verifyContent, joinGroup, transferGroupOwnership, sendMessage
\* and createAnnouncement, whenever the request has dispatched its
\* notification, whatever the dispatch did (sent, returned a failure
\* result, threw), the request reports success and its write is stored.
C12_DispatchNeverFailsRequest ==
  notif.outcome \in NotifyOutcomes => Ok(resp.status) /\ Persisted(resp)

C12_Witness ==
  /\ notif.outcome = "threw"
  /\ resp.op = "sendMessage"
  /\ resp.status = 201
  /\ msgs[resp.msg] # NoMsg


\* ------------------------------------------------------------------
\* addToGroup
\* ------------------------------------------------------------------
\* C13: addToGroup by an authorized actor (the group's admin or an app
\* admin) with a list of users always succeeds and leaves the member list
\* as the old one plus one entry for each listed user that was not a member:
\* a listed member is no error and gets no second entry, so repeating the
\* request changes nothing.
C13_AddIsSetUnion ==
  [][\A c \in 1..MaxChats :
       ( /\ resp'.op = "addToGroup" /\ resp'.chat = c /\ resp'.users.isArray
         /\ IsGroup(chats[c])
         /\ (chats[c].groupAdmin = resp'.actor \/ RoleOf(resp'.actor) = "admin") )
       => LET U == chats[c].users
              X == BagToSet(resp'.users.ids)
          IN /\ resp'.status = 200
             /\ IsGroup(chats'[c])
             /\ BagToSet(chats'[c].users) = BagToSet(U) \cup X
             /\ \A u \in BagToSet(U) : Copies(chats'[c].users, u) = Copies(U, u)
             /\ \A u \in X \ BagToSet(U) : Copies(chats'[c].users, u) = 1]_vars

\* A successful addToGroup by the group's admin that listed the admin (a
\* member) and one more user.
C13_Witness ==
  /\ resp.op = "addToGroup"
  /\ resp.status = 200
  /\ resp.actor = resp.admin
  /\ resp.actor \in BagToSet(resp.users.ids)
  /\ Cardinality(BagToSet(resp.users.ids)) = 2
  /\ \A u \in BagToSet(resp.users.ids) : Copies(chats[resp.chat].users, u) = 1


\* ------------------------------------------------------------------
\* joinGroup
\* ------------------------------------------------------------------
\* C14: joinGroup by u on chat c succeeds exactly when c is a group chat,
\* is public and u is not in its member list; a success adds one entry for
\* u to the member list and changes nothing else of the chat, and a
\* rejected request leaves the chat as it was.
C14_JoinRules ==
  [][\A c \in 1..MaxChats :
       (resp'.op = "joinGroup" /\ resp'.chat = c)
       => LET u == resp'.actor
              joinable == /\ chats[c] # NoChat
                          /\ chats[c].isGroupChat
                          /\ chats[c].isPublic
                          /\ Copies(chats[c].users, u) = 0
          IN /\ Ok(resp'.status) <=> joinable
             /\ IF joinable
                  THEN /\ chats'[c] # NoChat
                       /\ [chats'[c] EXCEPT !.users = chats[c].users] = chats[c]
                       /\ BagToSet(chats'[c].users) = BagToSet(chats[c].users) \cup {u}
                       /\ Copies(chats'[c].users, u) = 1
                       /\ \A v \in BagToSet(chats[c].users) :
                            Copies(chats'[c].users, v) = Copies(chats[c].users, v)
                  ELSE chats'[c] = chats[c]]_vars

\* A user who is not the group's admin has joined.
C14_Witness ==
  /\ resp.op = "joinGroup"
  /\ resp.status = 200
  /\ resp.actor # resp.admin
  /\ Copies(chats[resp.chat].users, resp.actor) = 1


\* ------------------------------------------------------------------
\* transferGroupOwnership
\* ------------------------------------------------------------------
\* C15 as stated: transferGroupOwnership to t succeeds only if t is in the
\* chat's member list; a success makes t the groupAdmin, leaves the member
\* list unchanged and the previous groupAdmin is a member afterwards; with
\* t not a member the request is rejected and groupAdmin is unchanged.
C15_TransferKeepsOldAdminMember ==
  [][\A c \in 1..MaxChats :
       (resp'.op = "transferGroupOwnership" /\ resp'.chat = c /\ chats[c] # NoChat)
       => LET t == resp'.target
              prev == chats[c].groupAdmin
          IN /\ Ok(resp'.status) => Copies(chats[c].users, t) > 0
             /\ Ok(resp'.status)
                  => /\ chats'[c].groupAdmin = t
                     /\ chats'[c].users = chats[c].users
                     /\ Copies(chats'[c].users, prev) > 0
             /\ Copies(chats[c].users, t) = 0
                  => ~Ok(resp'.status) /\ chats'[c].groupAdmin = prev]_vars

\* C15 amended: the same, with the previous groupAdmin a member afterwards
\* if it was one before (the member list is unchanged, and an app admin's
\* removeFromGroup may have taken the groupAdmin out of it earlier).
C15_TransferKeepsMembers ==
  [][\A c \in 1..MaxChats :
       (resp'.op = "transferGroupOwnership" /\ resp'.chat = c /\ chats[c] # NoChat)
       => LET t == resp'.target
              prev == chats[c].groupAdmin
          IN /\ Ok(resp'.status) => Copies(chats[c].users, t) > 0
             /\ Ok(resp'.status)
                  => /\ chats'[c].groupAdmin = t
                     /\ chats'[c].users = chats[c].users
                     /\ Copies(chats[c].users, prev) > 0
                          => Copies(chats'[c].users, prev) > 0
             /\ Copies(chats[c].users, t) = 0
                  => ~Ok(resp'.status) /\ chats'[c].groupAdmin = prev]_vars

\* The group's admin, not an app admin, has handed the group to another
\* member and is still in the member list.
C15_Witness ==
  /\ resp.op = "transferGroupOwnership"
  /\ resp.status = 200
  /\ RoleOf(resp.actor) # "admin"
  /\ resp.target # resp.actor
  /\ chats[resp.chat].groupAdmin = resp.target
  /\ Copies(chats[resp.chat].users, resp.actor) > 0


\* ------------------------------------------------------------------
\* Direct chats next to groups, one request at a time
\* ------------------------------------------------------------------
InitRooms ==
  /\ users = InitUsers
  /\ chats = [c \in 1..MaxRooms |-> NoChat]
  /\ items = [i \in 1..MaxItems |-> NoItem]
  /\ nextItem = 1
  /\ resp = NoResp
  /\ disk = {}
  /\ InitSide

NextDirect ==
  \/ \E actor \in UserIds, userId \in UserIds \cup {NoVal} : AccessChat(actor, userId)
  \/ \E p \in {"true", "false"}, l \in ReqUserLists({"s1"}) :
        CreateGroupChat("t1", "g1", l, p, NoVal)
  \/ \E actor \in UserIds, c \in 1..MaxRooms, l \in ReqUserLists({"s1"}) :
        AddToGroup(actor, c, l)
  \/ \E actor \in UserIds, c \in 1..MaxRooms, userId \in UserIds :
        RemoveFromGroup(actor, c, userId)
  \/ \E actor \in UserIds, c \in 1..MaxRooms : JoinGroup(actor, c, "sent")
  \/ \E actor \in UserIds, c \in 1..MaxRooms : LeaveGroup(actor, c)

SpecDirect == InitRooms /\ [][NextDirect]_vars

\* The chat c is a direct chat of the two users x and y.
DirectOf(c, x, y) ==
  chats[c] # NoChat /\ ~chats[c].isGroupChat /\ BagToSet(chats[c].users) = {x, y}

\* C16: with requests handled one at a time, accessChat by X with another
\* user Y answers with a direct chat of X and Y, and once a direct chat of
\* the pair exists it stays as it is and every accessChat by X with Y or by
\* Y with X answers with the id of that chat and creates nothing, whatever
\* other chats the two are in.
C16_AccessChatIdempotent ==
  [][/\ \A c \in 1..MaxRooms :
          (chats[c] # NoChat /\ ~chats[c].isGroupChat) => chats'[c] = chats[c]
     /\ (resp'.op = "accessChat" /\ resp'.target # NoVal /\ resp'.target # resp'.actor)
        => /\ Ok(resp'.status)
           /\ resp'.chat \in 1..MaxRooms
           /\ chats'[resp'.chat] # NoChat
           /\ ~chats'[resp'.chat].isGroupChat
           /\ BagToSet(chats'[resp'.chat].users) = {resp'.actor, resp'.target}
           /\ \A c \in 1..MaxRooms :
                DirectOf(c, resp'.actor, resp'.target)
                => resp'.chat = c /\ chats' = chats]_vars

\* accessChat has answered with chat 1 while chat 2, made after chat 1, is
\* another chat of the caller: the answer is a chat that was there before
\* the request.
C16_Witness ==
  /\ resp.op = "accessChat"
  /\ resp.status = 200
  /\ resp.target # resp.actor
  /\ resp.chat = 1
  /\ DirectOf(1, resp.actor, resp.target)
  /\ chats[2] # NoChat
  /\ Includes(chats[2].users, resp.actor)


\* ------------------------------------------------------------------
\* accessChat requests that interleave at their awaits
\* ------------------------------------------------------------------
\* Node handles one request until its next await; a second accessChat may
\* run its lookup while the first waits for the answer of its own.
NextRace ==
  \/ \E actor \in UserIds, userId \in UserIds \cup {NoVal} : AccessChatFind(actor, userId)
  \/ \E actor \in UserIds : AccessChatCreate(actor)
  \/ \E p \in {"true", "false"}, l \in ReqUserLists({"s1"}) :
        CreateGroupChat("t1", "g1", l, p, NoVal)

SpecRace == InitRooms /\ [][NextRace]_vars

\* C17: in every reachable state, also with accessChat requests of the same
\* pair interleaving between lookup and creation, no two direct chats have
\* the same pair of users.
C17_OneDirectChatPerPair ==
  \A c, d \in 1..MaxRooms :
    ( /\ c # d
      /\ chats[c] # NoChat /\ ~chats[c].isGroupChat
      /\ chats[d] # NoChat /\ ~chats[d].isGroupChat )
    => BagToSet(chats[c].users) # BagToSet(chats[d].users)


\* ------------------------------------------------------------------
\* Messages in a group and a direct chat
\* ------------------------------------------------------------------
NextMsg ==
  \/ CreateGroupChat("t1", "g1", [isArray |-> TRUE, ids |-> SetToBag({"s1"})], "true", NoVal)
  \/ \E actor \in {"s1", "t1"}, userId \in {"s1", "t1"} : AccessChat(actor, userId)
  \/ \E c \in 1..MaxRooms : JoinGroup("s1", c, "sent")
  \/ \E c \in 1..MaxRooms : LeaveGroup("s1", c)
  \/ \E actor \in {"s1", "t1"}, c \in 0..MaxRooms, t \in {NoVal, "hi"} :
        SendMessage(actor, c, t, FALSE, "sent")
  \/ \E actor \in {"s1", "t1"}, c \in 1..MaxRooms, pg \in ReqPages, l \in ReqLimits :
        GetMessages(actor, c, pg, l)
  \/ \E actor \in {"s1", "t1"}, m \in 1..MaxMsgs : DeleteMessage(actor, m)
  \/ \E actor \in {"s1", "t1"} : GetUnreadCount(actor)

SpecMsg == InitRooms /\ [][NextMsg]_vars

\* The messages of chat c that count as unread for u: not deleted, in a
\* chat u is a member of, sent by someone else, without u in readBy.
Unread(u, c) ==
  {m \in 1..MaxMsgs : /\ msgs[m] # NoMsg
                      /\ msgs[m].chat = c
                      /\ ~msgs[m].isDeleted
                      /\ chats[c] # NoChat /\ Copies(chats[c].users, u) > 0
                      /\ msgs[m].sender # u
                      /\ u \notin msgs[m].readBy}

\* C18: getUnreadCount by U answers, for each chat, with the number of
\* messages unread for U in it (a chat with none has no entry) and, as the
\* total, with their number over all chats; and right after a successful
\* getMessages by U on a chat, whatever the page and the limit, no message
\* of that chat is unread for U.
C18_UnreadCountExact ==
  [][\A u \in UserIds :
       /\ (resp'.op = "getUnreadCount" /\ resp'.actor = u)
          => /\ resp'.status = 200
             /\ \A c \in 1..MaxRooms :
                  Cardinality(Unread(u, c)') =
                    IF c \in DOMAIN resp'.unreadByChat THEN resp'.unreadByChat[c] ELSE 0
             /\ \A c \in DOMAIN resp'.unreadByChat : resp'.unreadByChat[c] > 0
             /\ resp'.totalUnread =
                  Cardinality(UNION {Unread(u, c)' : c \in 1..MaxRooms})
       /\ \A c \in 1..MaxRooms :
            ( /\ resp'.op = "getMessages" /\ resp'.status = 200
              /\ resp'.actor = u /\ resp'.chat = c )
            => Unread(u, c)' = {}]_vars

\* getMessages has returned a page with one of the two messages of a chat,
\* both sent by the other user, and both now have the reader in readBy.
C18_Witness ==
  /\ resp.op = "getMessages"
  /\ resp.status = 200
  /\ Cardinality(resp.data) = 1
  /\ \A m \in 1..MaxMsgs :
       /\ msgs[m] # NoMsg
       /\ msgs[m].chat = resp.chat
       /\ msgs[m].sender # resp.actor
       /\ ~msgs[m].isDeleted
       /\ resp.actor \in msgs[m].readBy


\* C19: every message has its sender in readBy from its creation on, and
\* readBy only grows: a successful getMessages by u on a chat adds u to
\* readBy of each message of that chat and takes no reader from any
\* message, and every other request, deleteMessage included, leaves readBy
\* of the existing messages as it is.
C19_ReadByGrows ==
  [][\A m \in 1..MaxMsgs :
       /\ msgs'[m] # NoMsg => msgs'[m].sender \in msgs'[m].readBy
       /\ msgs[m] # NoMsg
          => /\ msgs'[m] # NoMsg
             /\ msgs[m].readBy \subseteq msgs'[m].readBy
             /\ msgs'[m].readBy =
                  IF /\ resp'.op = "getMessages" /\ resp'.status = 200
                     /\ resp'.chat = msgs[m].chat
                    THEN msgs[m].readBy \cup {resp'.actor}
                    ELSE msgs[m].readBy]_vars

\* A message that its receiver has read and its sender then deleted still
\* has both in readBy.
C19_Witness ==
  \E m \in 1..MaxMsgs :
    /\ msgs[m] # NoMsg
    /\ msgs[m].isDeleted
    /\ resp.op = "deleteMessage"
    /\ resp.status = 200
    /\ resp.msg = m
    /\ msgs[m].sender \in msgs[m].readBy
    /\ Cardinality(msgs[m].readBy) = 2


\* ------------------------------------------------------------------
\* Update and delete of one's own and of others' resources
\* ------------------------------------------------------------------
\* A body that changes the branch, and one the schema refuses.
ReqChanges == {ScopeBody("ECE", NoVal), ScopeBody("Computer Science", NoVal)}

NextOwn ==
  \/ CreateNote("s1", ScopeBody("CSE", NoVal), TRUE)
  \/ \E actor \in UserIds, id \in 1..MaxItems, body \in ReqChanges, f \in BOOLEAN :
        UpdateNote(actor, id, body, f)
  \/ \E actor \in UserIds, id \in 1..MaxItems : DeleteNote(actor, id)
  \/ CreateVideo("s1", ScopeBody("CSE", NoVal), "youtube")
  \/ \E actor \in UserIds, id \in 1..MaxItems, body \in ReqChanges, f \in BOOLEAN :
        UpdateVideo(actor, id, body, f)
  \/ \E actor \in UserIds, id \in 1..MaxItems : DeleteVideo(actor, id)
  \/ AddComment("t1", 1, TRUE)
  \/ \E actor \in UserIds, id \in 1..MaxItems, k \in 1..MaxComments :
        DeleteComment(actor, id, k)
  \/ CreatePYQ("s1", ScopeBody("CSE", NoVal), TRUE)
  \/ \E actor \in UserIds, id \in 1..MaxItems, body \in ReqChanges, f \in BOOLEAN :
        UpdatePYQ(actor, id, body, f)
  \/ \E actor \in UserIds, id \in 1..MaxItems : DeletePYQ(actor, id)
  \/ \E actor \in {"s1", "t1"} : CreateSyllabus(actor, ScopeBody("CSE", NoVal), TRUE)
  \/ \E actor \in UserIds, id \in 1..MaxItems, body \in ReqChanges, f \in BOOLEAN :
        UpdateSyllabus(actor, id, body, f)
  \/ \E actor \in UserIds, id \in 1..MaxItems : DeleteSyllabus(actor, id)
  \/ AccessChat("s1", "t1")
  \/ \E f \in BOOLEAN : SendMessage("s1", 1, "hi", f, "sent")
  \/ \E actor \in UserIds, m \in 1..MaxMsgs : DeleteMessage(actor, m)
  \/ UpdateUser("a1", "t1", "student", Profile("ECE", 2, 3))

SpecOwn == Init /\ [][NextOwn]_vars

OwnUpdateOps == {"updateNote", "updateVideo", "updatePYQ", "updateSyllabus"}
OwnDeleteOps == {"deleteNote", "deleteVideo", "deletePYQ", "deleteSyllabus"}
OwnKind(op) ==
  CASE op \in {"updateNote", "deleteNote"} -> "note"
    [] op \in {"updateVideo", "deleteVideo"} -> "video"
    [] op \in {"updatePYQ", "deletePYQ"} -> "pyq"
    [] OTHER -> "syllabus"

\* The actor u is the owner or an app admin.
OwnerOrAdmin(owner, u) == owner = u \/ users[u].role = "admin"

\* A step that answers an update or delete of an existing note, video, PYQ
\* or syllabus: without the right to it the answer is 403 and the row and
\* its file stay; with it the answer is not 403; a delete that succeeds
\* removes the row.  With staffGate, the right to a syllabus needs the role
\* admin or teacher as well.
OwnContentRule(staffGate) ==
  \A id \in 1..MaxItems, u \in UserIds :
    ( /\ resp'.op \in OwnUpdateOps \cup OwnDeleteOps
      /\ resp'.item = id /\ resp'.actor = u
      /\ items[id] # NoItem /\ items[id].kind = OwnKind(resp'.op) )
    => LET row == items[id]
           allowed == /\ OwnerOrAdmin(row.uploadedBy, u)
                      /\ (staffGate /\ row.kind = "syllabus")
                           => users[u].role \in {"admin", "teacher"}
       IN /\ ~allowed => /\ resp'.status = 403
                         /\ items'[id] = row
                         /\ row.filePath \in disk => row.filePath \in disk'
          /\ allowed => resp'.status # 403
          /\ Ok(resp'.status) => allowed
          /\ (Ok(resp'.status) /\ resp'.op \in OwnDeleteOps) => items'[id] = NoItem

\* The same for deleteMessage of an existing message.
OwnMessageRule ==
  \A m \in 1..MaxMsgs, u \in UserIds :
    ( /\ resp'.op = "deleteMessage" /\ resp'.msg = m /\ resp'.actor = u
      /\ msgs[m] # NoMsg )
    => IF OwnerOrAdmin(msgs[m].sender, u)
         THEN resp'.status = 200 /\ msgs'[m].isDeleted
         ELSE /\ resp'.status = 403
              /\ msgs'[m] = msgs[m]
              /\ msgs[m].attachments \cap disk \subseteq disk'

\* The same for deleteComment of an existing comment of the video.
OwnCommentRule ==
  \A k \in 1..MaxComments, u \in UserIds :
    ( /\ resp'.op = "deleteComment" /\ resp'.comment = k /\ resp'.actor = u
      /\ comments[k] # NoComment /\ comments[k].video = resp'.item
      /\ items[comments[k].video] # NoItem )
    => IF OwnerOrAdmin(comments[k].user, u)
         THEN resp'.status = 200 /\ comments'[k] = NoComment
         ELSE resp'.status = 403 /\ comments'[k] = comments[k]

\* C20 as stated: an update or delete of a note, syllabus, video, PYQ,
\* message or video comment is let through if and only if the actor is the
\* resource's owner or has role admin; any other actor gets 403 and the
\* row and its stored file do not change.
C20_OwnerOrAdminOnly ==
  [][OwnContentRule(FALSE) /\ OwnMessageRule /\ OwnCommentRule]_vars

\* C20 amended: the same, where for a syllabus the actor must also have
\* role admin or teacher (the router's authorize in front of the handler).
C20_OwnerOrAdminAndStaffForSyllabus ==
  [][OwnContentRule(TRUE) /\ OwnMessageRule /\ OwnCommentRule]_vars

\* The teacher's update of the student's note, sent with a file, was
\* answered 403: the note still has its file, next to the uploaded one.
C20_Witness ==
  /\ resp.op = "updateNote"
  /\ resp.status = 403
  /\ resp.actor = "t1"
  /\ items[resp.item] # NoItem
  /\ items[resp.item].uploadedBy = "s1"
  /\ items[resp.item].filePath \in disk
  /\ Cardinality(disk) = 2


\* ===================================================================
\* Admin user management
\* ===================================================================
\* The role and scope fields an admin sends with createUser / updateUser.
ReqAllRoles == {NoVal, "student", "teacher", "admin"}
ReqScopes == {Profile(NoVal, 0, 0), Profile("ECE", 2, 3)}

NextAdmin ==
  \/ \E actor \in UserIds, e \in UserIds, r \in ReqAllRoles, p \in ReqScopes :
        CreateUser(actor, e, r, p.branch)
  \/ \E actor \in UserIds, id \in UserIds, r \in ReqAllRoles, p \in ReqScopes :
        UpdateUser(actor, id, r, p)
  \/ \E actor \in UserIds, id \in UserIds : DeleteUser(actor, id)

SpecAdmin == Init /\ [][NextAdmin]_vars

\* C21: a deleteUser whose target has role admin is rejected, and nobody
\* is deleted, when the target is the only admin; issued by an admin while
\* two or more admins exist it succeeds and removes just the target.
C21_LastAdminStays ==
  [][\A id \in UserIds :
       ( /\ resp'.op = "deleteUser" /\ resp'.target = id
         /\ users[id] # NoUser /\ users[id].role = "admin" )
       => LET admins == {u \in UserIds : users[u] # NoUser /\ users[u].role = "admin"} IN
          /\ admins = {id} => ~Ok(resp'.status) /\ users' = users
          /\ (Cardinality(admins) >= 2 /\ resp'.actor \in admins)
               => /\ resp'.status = 200
                  /\ users'[id] = NoUser
                  /\ \A u \in UserIds \ {id} : users'[u] = users[u]]_vars

\* The only admin asked for its own deletion and was refused.
C21_Witness ==
  /\ resp.op = "deleteUser"
  /\ resp.status = 400
  /\ resp.actor = resp.target
  /\ users[resp.target] # NoUser
  /\ users[resp.target].role = "admin"
  /\ \A u \in UserIds \ {resp.target} : users[u] = NoUser \/ users[u].role # "admin"

\* ===================================================================
\* Likes and ratings: videoRoutes PUT /:id/like and noteRoutes
\* POST /:id/ratings, with the create and update requests beside them.
\* ===================================================================
\* rating of an addRating body; 0: absent, 6: out of range.
ReqRatings == {0, 1, 4, 5, 6}

NextEngage ==
  \/ \E actor \in {"t1"} : CreateNote(actor, ScopeBody("CSE", NoVal), TRUE)
  \/ \E actor \in {"t1"}, src \in {"youtube"} : CreateVideo(actor, ScopeBody("CSE", NoVal), src)
  \/ \E actor \in UserIds, id \in 1..MaxItems : LikeVideo(actor, id)
  \/ \E actor \in UserIds, id \in 1..MaxItems, r \in ReqRatings : AddRating(actor, id, r)
  \/ \E actor \in {"t1"}, id \in 1..MaxItems : UpdateVideo(actor, id, ScopeBody("ECE", NoVal), FALSE)
  \/ \E actor \in {"t1"}, id \in 1..MaxItems : UpdateNote(actor, id, ScopeBody("ECE", NoVal), FALSE)
  \/ \E actor \in UserIds, id \in 1..MaxItems : GetVideo(actor, id)
  \/ \E actor \in UserIds, id \in 1..MaxItems : GetNote(actor, id)

SpecEngage == Init /\ [][NextEngage]_vars

VideoIds == {i \in 1..MaxItems : items[i] # NoItem /\ items[i].kind = "video"}
NoteIds == {i \in 1..MaxItems : items[i] # NoItem /\ items[i].kind = "note"}
Likers(i) == {items[i].usersLiked[k] : k \in DOMAIN items[i].usersLiked}

\* C22: with likeVideo requests handled one after another, every video's
\* likes equals the number of distinct users in usersLiked and is never
\* negative; a likeVideo by user u that is answered 200 adds u and raises
\* likes by one when u was absent, and removes u and lowers likes by one
\* (not below 0) when u was present, leaving every other user's like as
\* it was -- so a second likeVideo by the same user undoes the first.
C22_LikesCountDistinctLikers ==
  /\ [](\A i \in VideoIds :
          items[i].likes = Cardinality(Likers(i)) /\ items[i].likes >= 0)
  /\ [][\A i \in 1..MaxItems, u \in UserIds :
          (resp'.op = "likeVideo" /\ resp'.status = 200 /\ resp'.item = i /\ resp'.actor = u)
          => /\ i \in VideoIds /\ i \in VideoIds'
             /\ u \notin Likers(i)
                  => Likers(i)' = Likers(i) \cup {u} /\ items'[i].likes = items[i].likes + 1
             /\ u \in Likers(i)
                  => /\ Likers(i)' = Likers(i) \ {u}
                     /\ items'[i].likes = FloorZero(items[i].likes - 1)]_vars

\* A user took a like back while two other users' likes stay.
C22_Witness ==
  /\ resp.op = "likeVideo" /\ resp.status = 200
  /\ resp.item \in VideoIds
  /\ resp.actor \notin Likers(resp.item)
  /\ items[resp.item].likes = 2

RatersOf(i) == {items[i].ratings[k].user : k \in DOMAIN items[i].ratings}

\* C23: after any sequence of completed addRating requests every note's
\* ratings holds at most one entry per user and averageRating is the sum
\* of the stored ratings divided by their number (0 when there is none);
\* an addRating answered 200 from a user who already has an entry leaves
\* the number of entries as it was and sets that user's entry to the new
\* rating, and one from a new user appends one entry.
C23_OneRatingPerUserAndMean ==
  /\ [](\A i \in NoteIds :
          LET rs == items[i].ratings avg == items[i].averageRating IN
          /\ \A j, k \in DOMAIN rs : rs[j].user = rs[k].user => j = k
          /\ \A k \in DOMAIN rs : rs[k].rating \in 1..5
          /\ avg.den > 0
          /\ IF rs = <<>> THEN avg.num = 0
             ELSE avg.num * Len(rs) = TotalRating(rs) * avg.den)
  /\ [][\A i \in 1..MaxItems, u \in UserIds :
          (resp'.op = "addRating" /\ resp'.status = 200 /\ resp'.item = i /\ resp'.actor = u)
          => /\ i \in NoteIds /\ i \in NoteIds'
             /\ Len(items'[i].ratings) =
                  Len(items[i].ratings) + (IF u \in RatersOf(i) THEN 0 ELSE 1)
             /\ \A k \in DOMAIN items[i].ratings :
                  items[i].ratings[k].user # u => items'[i].ratings[k] = items[i].ratings[k]
             /\ \E k \in DOMAIN items'[i].ratings :
                  /\ items'[i].ratings[k].user = u
                  /\ items'[i].ratings[k].rating \in ReqRatings]_vars

\* s1 rated, then t1, then s1 rated again: s1's entry was overwritten in
\* place and the mean of 4 and 1 is not a whole number.
C23_Witness ==
  /\ resp.op = "addRating" /\ resp.status = 200 /\ resp.actor = "s1"
  /\ resp.item \in NoteIds
  /\ items[resp.item].ratings = <<[user |-> "s1", rating |-> 4], [user |-> "t1", rating |-> 1]>>
  /\ items[resp.item].averageRating = [num |-> 5, den |-> 2]

\* The stored files the content rows refer to.
RowFiles == {items[i].filePath : i \in {k \in 1..MaxItems : items[k] # NoItem}} \ {0}

\* C24: a content update request that ends in an error (validation
\* error, authorization error, not found) changes no state: the rows of
\* the content collections are as before, and every stored file a row's
\* filePath referred to before the request still exists after it.
C24_FailedUpdateChangesNothing ==
  [][(resp'.op \in OwnUpdateOps /\ resp'.status >= 400)
       => /\ items' = items
          /\ \A f \in RowFiles : f \in disk => f \in disk']_vars

\* C25: in every reachable state every user with role student has branch,
\* year and semester set, whatever register, googleAuth, updateDetails,
\* admin createUser and admin updateUser requests came before.
C25_StudentHasScope ==
  \A u \in UserIds :
    (users[u] # NoUser /\ users[u].role = "student")
      => users[u].branch # NoVal /\ users[u].year # 0 /\ users[u].semester # 0

\* C26: at least one user with role admin exists in every reachable
\* state (one exists initially): no sequence of admin deleteUser and
\* updateUser requests brings the number of admins to zero.
C26_AnAdminRemains == AdminCount >= 1

\* ===================================================================
\* Membership and messages: a group whose members come and go (join,
\* leave, removal, addition) while they send and read messages.
\* ===================================================================
NextMember ==
  \/ \E actor \in {"t1"} :
        CreateGroupChat(actor, "g1", [isArray |-> TRUE, ids |-> SetToBag({"s1"})], "true", NoVal)
  \/ \E c \in 1..MaxRooms : JoinGroup("s1", c, "sent")
  \/ \E actor \in {"s1", "t1"}, c \in 1..MaxRooms : LeaveGroup(actor, c)
  \/ \E actor \in UserIds, c \in 1..MaxRooms, userId \in {"s1"} : RemoveFromGroup(actor, c, userId)
  \/ \E actor \in {"t1"}, c \in 1..MaxRooms :
        AddToGroup(actor, c, [isArray |-> TRUE, ids |-> SetToBag({"s1"})])
  \/ \E actor \in UserIds, c \in 0..MaxRooms, t \in {NoVal, "hi"} :
        SendMessage(actor, c, t, FALSE, "sent")
  \/ \E actor \in UserIds, c \in 1..MaxRooms, pg \in {NoVal}, l \in {NoVal} :
        GetMessages(actor, c, pg, l)

SpecMember == InitRooms /\ [][NextMember]_vars

\* u is in the users list of chat c.
MemberOf(u, c) == c \in DOMAIN chats /\ chats[c] # NoChat /\ BagIn(u, chats[c].users)
ReadersOf(m) == IF msgs[m] = NoMsg THEN {} ELSE msgs[m].readBy

\* C27: getMessages and sendMessage on chat c succeed only for an actor
\* who is in c.users when the request is handled; a request by a user who
\* is not (never was, has left, or was removed, and has not been added or
\* joined again) is rejected, creates no message and adds nobody to a
\* readBy set.
C27_OnlyMembersReadAndSend ==
  [][\A u \in UserIds, c \in 0..MaxRooms :
       (resp'.op \in {"getMessages", "sendMessage"} /\ resp'.actor = u /\ resp'.chat = c)
       => /\ resp'.status \in 200..299 => MemberOf(u, c)
          /\ ~MemberOf(u, c)
               => /\ resp'.status >= 400
                  /\ msgs' = msgs
                  /\ \A m \in 1..MaxMsgs : u \in ReadersOf(m)' => u \in ReadersOf(m)]_vars

\* s1 sent a message to the group while a member, is a member no longer,
\* and its getMessages is turned away.
C27_Witness ==
  /\ resp.op = "getMessages" /\ resp.status = 403 /\ resp.actor = "s1"
  /\ \E c \in 1..MaxRooms :
       /\ resp.chat = c /\ chats[c] # NoChat /\ ~MemberOf("s1", c)
       /\ \E m \in 1..MaxMsgs : msgs[m] # NoMsg /\ msgs[m].chat = c /\ msgs[m].sender = "s1"

\* ===================================================================
\* Self-service accounts: the auth routes and, from actors who are not
\* admins, the admin user routes.  Every role a body carries here is
\* teacher or admin.
\* ===================================================================
InitSelf ==
  /\ users = [InitUsers EXCEPT !["s1"] = NoUser]
  /\ chats = [c \in 1..MaxChats |-> NoChat]
  /\ items = [i \in 1..MaxItems |-> NoItem]
  /\ nextItem = 1
  /\ resp = NoResp
  /\ disk = {}
  /\ InitSide

PrivilegedRoles == {"teacher", "admin"}
SelfProfiles == ReqProfiles \cup {Profile("ME", 0, 0), Profile(NoVal, 1, 0), Profile(NoVal, 0, 8)}
NonAdmins == {"s1", "t1"}

NextSelf ==
  \/ \E e \in UserIds, r \in PrivilegedRoles, p \in SelfProfiles : Register(e, r, p)
  \/ \E e \in UserIds, r \in PrivilegedRoles, p \in SelfProfiles, g \in BOOLEAN :
        GoogleAuth(e, r, p, g)
  \/ \E e \in UserIds, ok \in BOOLEAN, t \in BOOLEAN : Login(e, ok, t)
  \/ \E actor \in NonAdmins, ok \in BOOLEAN : VerifyOTP(actor, ok)
  \/ \E actor \in NonAdmins, p \in SelfProfiles : UpdateDetails(actor, p)
  \/ \E actor \in NonAdmins, ok \in BOOLEAN : UpdatePassword(actor, ok)
  \/ \E actor \in NonAdmins, e \in UserIds, r \in PrivilegedRoles :
        CreateUser(actor, e, r, NoVal)
  \/ \E actor \in NonAdmins, id \in UserIds, r \in PrivilegedRoles :
        UpdateUser(actor, id, r, Profile(NoVal, 0, 0))
  \/ \E actor \in NonAdmins, id \in UserIds : DeleteUser(actor, id)

SpecSelf == InitSelf /\ [][NextSelf]_vars

\* C28: no request made without an admin actor (register, login,
\* googleAuth, verifyOTP, updateDetails, updatePassword, or an admin user
\* route called by a non-admin), whatever role its body carries, creates
\* a user whose role is teacher or admin or changes the role of an
\* existing user.
C28_NoSelfServicePrivilege ==
  [][\A u \in UserIds :
       users'[u] # NoUser
         => IF users[u] = NoUser THEN users'[u].role = "student"
            ELSE users'[u].role = users[u].role]_vars

\* s1 did not exist initially, and here only googleAuth can create it,
\* with a body whose role is teacher or admin: s1 was created a student.
C28_Witness ==
  /\ resp.op = "googleAuth" /\ resp.status = 200 /\ resp.target = "s1"
  /\ users["s1"] # NoUser
  /\ users["s1"].role = "student"

\* C29: in every reachable state the users list of every chat names each
\* user at most once, and a direct chat has exactly two distinct members.
C29_MembersListedOnce ==
  \A c \in DOMAIN chats :
    chats[c] # NoChat
      => /\ \A u \in UserIds : Copies(chats[c].users, u) <= 1
         /\ ~chats[c].isGroupChat => Cardinality(BagToSet(chats[c].users)) = 2

\* ===================================================================
\* The /chat namespace of Socket.io: chatNamespace.on('connection', ...)
\* ===================================================================
\* A socket handler touches nothing but the namespace.
SocketOnly == UNCHANGED <<users, chats, contentVars, sideVars, resp, notif>>

\* socket.emit(event)
ToSelf(k, event) == {[to |-> k, event |-> event, chat |-> 0]}
\* chatNamespace.emit(event)
ToAll(event) == {[to |-> j, event |-> event, chat |-> 0] : j \in Sockets}
\* socket.to(`chat:${chatId}`).emit(event): the sockets of the room but
\* the sender.
ToRoom(k, chatId, event) ==
  {[to |-> j, event |-> event, chat |-> chatId] :
     j \in {x \in Sockets \ {k} : chatId \in io.chatRooms[x]}}

\* socket.on('authenticate', ({ userId }) => ...)
Authenticate(k, userId) ==
  /\ SocketOnly
  /\ IF userId = NoVal THEN io' = [io EXCEPT !.emitted = ToSelf(k, "error")]
     ELSE io' = [io EXCEPT !.onlineUsers[k] = userId,
                           !.userRooms[k] = @ \cup {userId},
                           !.emitted = ToAll("userOnline") \cup ToSelf(k, "authenticated")]

\* socket.on('joinChat', ({ chatId }) => ...); chatId 0: absent.
JoinChat(k, chatId) ==
  /\ SocketOnly
  /\ IF chatId = 0 THEN io' = [io EXCEPT !.emitted = ToSelf(k, "error")]
     ELSE io' = [io EXCEPT !.chatRooms[k] = @ \cup {chatId}, !.emitted = {}]

\* socket.on('leaveChat', ({ chatId }) => ...)
LeaveChat(k, chatId) ==
  /\ SocketOnly
  /\ IF chatId = 0 THEN io' = [io EXCEPT !.emitted = ToSelf(k, "error")]
     ELSE io' = [io EXCEPT !.chatRooms[k] = @ \ {chatId}, !.emitted = {}]

\* socket.on('newMessage', (message) => ...)
NewMessage(k, chatId) ==
  /\ SocketOnly
  /\ IF chatId = 0 THEN io' = [io EXCEPT !.emitted = ToSelf(k, "error")]
     ELSE io' = [io EXCEPT !.emitted = ToRoom(k, chatId, "messageReceived")]

\* socket.on('typing', ({ chatId, userId }) => ...)
Typing(k, chatId) ==
  /\ SocketOnly
  /\ io' = [io EXCEPT !.emitted = ToRoom(k, chatId, "userTyping")]

\* socket.on('stopTyping', ({ chatId, userId }) => ...)
StopTyping(k, chatId) ==
  /\ SocketOnly
  /\ io' = [io EXCEPT !.emitted = ToRoom(k, chatId, "userStoppedTyping")]

\* socket.on('messageRead', ({ messageId, chatId, userId }) => ...)
MessageRead(k, chatId) ==
  /\ SocketOnly
  /\ io' = [io EXCEPT !.emitted = ToRoom(k, chatId, "messageReadUpdate")]

\* socket.on('disconnect', ...): the socket has left all its rooms.
Disconnect(k) ==
  /\ SocketOnly
  /\ io' = [io EXCEPT !.onlineUsers[k] = NoVal,
                      !.userRooms[k] = {},
                      !.chatRooms[k] = {},
                      !.emitted = IF io.onlineUsers[k] # NoVal
                                    THEN {d \in ToAll("userOffline") : d.to # k}
                                    ELSE {}]

\* chatId of a socket payload; 0: absent.
ReqRooms == 0..MaxRooms

NextSocket ==
  \/ \E actor \in {"s1"}, userId \in {"t1"} : AccessChat(actor, userId)
  \/ \E k \in Sockets, userId \in {NoVal, "s1", "a1"} : Authenticate(k, userId)
  \/ \E k \in Sockets, c \in ReqRooms : JoinChat(k, c)
  \/ \E k \in Sockets, c \in ReqRooms : LeaveChat(k, c)
  \/ \E k \in Sockets, c \in ReqRooms : NewMessage(k, c)
  \/ \E k \in Sockets, c \in ReqRooms : Typing(k, c)
  \/ \E k \in Sockets, c \in ReqRooms : StopTyping(k, c)
  \/ \E k \in Sockets, c \in ReqRooms : MessageRead(k, c)
  \/ \E k \in Sockets : Disconnect(k)

SpecSocket == InitRooms /\ [][NextSocket]_vars

ChatEvents == {"messageReceived", "userTyping", "messageReadUpdate"}
\* Socket k has authenticated and its user is in the users of chat c.
MemberSocket(k, c) == io.onlineUsers[k] # NoVal /\ MemberOf(io.onlineUsers[k], c)

\* C30: a socket of the /chat namespace is delivered messageReceived,
\* userTyping and messageReadUpdate events of chat c only if it has
\* authenticated and its user is a member of c, and joinChat puts a
\* socket into the room chat:c only under the same condition.
C30_OnlyMemberSocketsSubscribe ==
  [][/\ \A k \in Sockets, c \in 1..MaxRooms :
          (c \in io'.chatRooms[k] /\ c \notin io.chatRooms[k]) => MemberSocket(k, c)
     /\ \A d \in io'.emitted :
          (io'.emitted # io.emitted /\ d.event \in ChatEvents) => MemberSocket(d.to, d.chat)]_vars

====
